---------------------------- MODULE Spec2Model ----------------------------
(***************************************************************************)
(* Appointment booking service (django-calendar-appointment).              *)
(*                                                                         *)
(* Instants are whole seconds since the Unix epoch (1970-01-01T00:00:00Z,  *)
(* a Thursday).  A wall-clock reading is the same count taken in a zone:   *)
(* wall = instant + offset of the zone.  A datetime of the calendar        *)
(* functions is [wall, tzinfo], tzinfo being << >> (naive) or <<offset>>.  *)
(* Texts are sequences of one-character strings.  A request body is a      *)
(* function from the keys it carries to their values, as the JSON object   *)
(* is a dict.                                                              *)
(***************************************************************************)
EXTENDS Integers, Sequences, FiniteSets, TLC

VARIABLES
    now,      \* the server clock, timezone.now()
    store,    \* the appointments table: id -> row
    nextId,   \* the table's id sequence
    pc,       \* per worker: the step of the handler it is in
    req,      \* per worker: the request it serves
    loc,      \* per worker: the handler's local variables
    resp,     \* per worker: the response of its last request
    served,   \* number of requests accepted so far
    arg,      \* argument of the calendar function under study
    out       \* its result

vars == <<now, store, nextId, pc, req, loc, resp, served, arg, out>>

(***************************************************************************)
(* Time arithmetic                                                         *)
(***************************************************************************)
SecondsPerHour == 60 * 60
SecondsPerDay == 24 * 60 * 60
SecondsPerWeek == 7 * 24 * 60 * 60

\* settings.TIME_ZONE defaults to "UTC": the local zone's offset in seconds.
UtcOffset == 0

\* timezone.localtime(t): the wall-clock reading of instant t.
localtime(t) == t + UtcOffset

\* datetime values: naive, or aware with a fixed offset from UTC
NoTz == << >>
Naive(wall) == [wall |-> wall, tzinfo |-> NoTz]
Aware(wall, off) == [wall |-> wall, tzinfo |-> <<off>>]
\* timezone.is_aware(dt)
is_aware(dt) == dt.tzinfo # NoTz
\* the instant an aware datetime denotes
Instant(dt) == dt.wall - dt.tzinfo[1]
\* timezone.localtime(dt) as a datetime: the same instant read in the server's zone
LocalDatetime(t) == Aware(t + UtcOffset, UtcOffset)
\* timezone.make_aware(dt, tz): tz None stands for the current (server) zone
make_aware(dt, tz) ==
    [wall |-> dt.wall, tzinfo |-> IF tz = NoTz THEN <<UtcOffset>> ELSE tz]
\* dt + timedelta(seconds): the reading moves, the zone stays
Plus(dt, seconds) == [dt EXCEPT !.wall = dt.wall + seconds]

_make_aware(dt, tz) == IF is_aware(dt) THEN dt ELSE make_aware(dt, tz)

\* datetime.weekday(): Monday is 0; day 0 of the epoch is a Thursday (3).
weekday(wall) == ((wall \div SecondsPerDay) + 3) % 7
hour(wall) == (wall % SecondsPerDay) \div SecondsPerHour
minute(wall) == (wall % SecondsPerHour) \div 60
second(wall) == wall % 60
\* datetime.date(): the wall-clock midnight that starts the day.
date(wall) == wall - (wall % SecondsPerDay)

(***************************************************************************)
(* Slot calendar engine (tasks/appointments_tasks.py)                      *)
(***************************************************************************)
BUSINESS_START_HOUR == 9
BUSINESS_END_HOUR == 17
SLOT_INTERVAL == 30 * 60
WEEKDAY_RANGE == 0 .. 4

\* the clock is the instant timezone.now() returns; the results are datetimes
get_current_week_range(clock) ==
    LET now_local == LocalDatetime(clock)
        tz == now_local.tzinfo
        week_start_date == date(now_local.wall) - weekday(now_local.wall) * SecondsPerDay
    IN  [start |-> _make_aware(Naive(week_start_date
                                         + BUSINESS_START_HOUR * SecondsPerHour), tz),
         end   |-> _make_aware(Naive(week_start_date + 5 * SecondsPerDay), tz)]

get_week_range(offset_weeks, clock) ==
    LET current == get_current_week_range(clock)
        tz == current.start.tzinfo
        week_start == Plus(current.start, offset_weeks * SecondsPerWeek)
        week_end_date == date(week_start.wall) + 5 * SecondsPerDay
    IN  IF offset_weeks = 0
        THEN current
        ELSE [start |-> week_start,
              end   |-> _make_aware(Naive(week_end_date), tz)]

\* the while loop as it would be with current_slot < closing_slot
RECURSIVE DaySlots_exclusive(_, _)
DaySlots_exclusive(current_slot, closing_slot) ==
    IF Instant(current_slot) < Instant(closing_slot)
    THEN <<current_slot>>
         \o DaySlots_exclusive(Plus(current_slot, SLOT_INTERVAL), closing_slot)
    ELSE << >>

\* the while loop of generate_business_slots: current_slot <= closing_slot,
\* aware datetimes being compared as instants
RECURSIVE DaySlots(_, _)
DaySlots(current_slot, closing_slot) ==
    IF Instant(current_slot) <= Instant(closing_slot)
    THEN <<current_slot>> \o DaySlots(Plus(current_slot, SLOT_INTERVAL), closing_slot)
    ELSE << >>

\* the for loop of generate_business_slots over WEEKDAY_RANGE, from day d on:
\* 09:00 and 17:00 of each day, read in the zone tz
RECURSIVE WeekSlots(_, _, _)
WeekSlots(start_date, tz, d) ==
    IF d \in WEEKDAY_RANGE
    THEN LET day_date == start_date + d * SecondsPerDay
         IN  DaySlots(_make_aware(Naive(day_date + BUSINESS_START_HOUR * SecondsPerHour),
                                  tz),
                      _make_aware(Naive(day_date + BUSINESS_END_HOUR * SecondsPerHour),
                                  tz))
             \o WeekSlots(start_date, tz, d + 1)
    ELSE << >>

\* tz = week_start.tzinfo and start_date = week_start.date(): the zone and
\* the date as week_start carries them
generate_business_slots(week_start) ==
    WeekSlots(date(week_start.wall), week_start.tzinfo, 0)

\* validate_slot as it would be with the closing hour shut:
\* local_slot.hour >= BUSINESS_END_HOUR
validate_slot_closing_shut(slot, clock) ==
    LET local_slot == localtime(slot) IN
    IF slot < clock THEN "PastSlot"
    ELSE IF weekday(local_slot) \notin WEEKDAY_RANGE THEN "NonBusinessDay"
    ELSE IF minute(local_slot) \notin {0, 30} THEN "Misaligned"
    ELSE IF hour(local_slot) < BUSINESS_START_HOUR THEN "OutsideHours"
    ELSE IF hour(local_slot) >= BUSINESS_END_HOUR THEN "OutsideHours"
    ELSE "ok"

\* validate_slot as it would be with the past check made last
validate_slot_past_last(slot, clock) ==
    LET local_slot == localtime(slot) IN
    IF weekday(local_slot) \notin WEEKDAY_RANGE THEN "NonBusinessDay"
    ELSE IF minute(local_slot) \notin {0, 30} THEN "Misaligned"
    ELSE IF hour(local_slot) < BUSINESS_START_HOUR THEN "OutsideHours"
    ELSE IF hour(local_slot) > BUSINESS_END_HOUR THEN "OutsideHours"
    ELSE IF hour(local_slot) = BUSINESS_END_HOUR /\ minute(local_slot) # 0
         THEN "OutsideHours"
    ELSE IF slot < clock THEN "PastSlot"
    ELSE "ok"

\* validate_slot as it would be without the check of the minute
validate_slot_minute_unchecked(slot, clock) ==
    LET local_slot == localtime(slot) IN
    IF slot < clock THEN "PastSlot"
    ELSE IF weekday(local_slot) \notin WEEKDAY_RANGE THEN "NonBusinessDay"
    ELSE IF hour(local_slot) < BUSINESS_START_HOUR THEN "OutsideHours"
    ELSE IF hour(local_slot) > BUSINESS_END_HOUR THEN "OutsideHours"
    ELSE IF hour(local_slot) = BUSINESS_END_HOUR /\ minute(local_slot) # 0
         THEN "OutsideHours"
    ELSE "ok"

\* validate_slot as it would be with the hours checked before the minute
validate_slot_hours_first(slot, clock) ==
    LET local_slot == localtime(slot) IN
    IF slot < clock THEN "PastSlot"
    ELSE IF weekday(local_slot) \notin WEEKDAY_RANGE THEN "NonBusinessDay"
    ELSE IF hour(local_slot) < BUSINESS_START_HOUR THEN "OutsideHours"
    ELSE IF hour(local_slot) > BUSINESS_END_HOUR THEN "OutsideHours"
    ELSE IF minute(local_slot) \notin {0, 30} THEN "Misaligned"
    ELSE "ok"

\* validate_slot: the name of the ValidationError raised, or "ok".
validate_slot(slot, clock) ==
    LET local_slot == localtime(slot) IN
    IF slot < clock THEN "PastSlot"
    ELSE IF weekday(local_slot) \notin WEEKDAY_RANGE THEN "NonBusinessDay"
    ELSE IF minute(local_slot) \notin {0, 30} THEN "Misaligned"
    ELSE IF hour(local_slot) < BUSINESS_START_HOUR THEN "OutsideHours"
    ELSE IF hour(local_slot) > BUSINESS_END_HOUR THEN "OutsideHours"
    ELSE IF hour(local_slot) = BUSINESS_END_HOUR /\ minute(local_slot) # 0
         THEN "OutsideHours"
    ELSE "ok"

(***************************************************************************)
(* ISO-8601 texts.  A timestamp text is [kind, wall, aware, off]:          *)
(*   kind "iso"       well formed; wall is the written date and time,      *)
(*                    off the written offset when aware                    *)
(*   kind "malformed" not an ISO-8601 datetime (parse_datetime gives None) *)
(*   kind "baddate"   well formed but no calendar date, such as February   *)
(*                    30 (parse_datetime raises ValueError)                *)
(*   kind "empty"     the empty string                                     *)
(***************************************************************************)
IsoText(wall, aware, off) ==
    [kind |-> "iso", wall |-> wall, aware |-> aware, off |-> off]
MalformedText == [kind |-> "malformed", wall |-> 0, aware |-> FALSE, off |-> 0]
BadDateText == [kind |-> "baddate", wall |-> 0, aware |-> FALSE, off |-> 0]
EmptyText == [kind |-> "empty", wall |-> 0, aware |-> FALSE, off |-> 0]

\* parse_start_time as it would be if the written offset were dropped and
\* every text read in the server's zone
parse_start_time_offset_dropped(value) ==
    CASE value.kind = "iso" ->
            [err |-> "ok", t |-> Instant(make_aware(Naive(value.wall), NoTz))]
      [] value.kind = "baddate" -> [err |-> "ValueError", t |-> 0]
      [] OTHER -> [err |-> "MalformedTimestamp", t |-> 0]

\* parse_start_time: [err |-> "ok", t |-> the instant of the datetime
\* returned], or the exception raised.  A naive reading is made aware in the
\* current zone, an aware one keeps its written offset.
parse_start_time(value) ==
    CASE value.kind = "iso" ->
            [err |-> "ok",
             t |-> IF value.aware
                   THEN Instant(Aware(value.wall, value.off))
                   ELSE Instant(make_aware(Naive(value.wall), NoTz))]
      [] value.kind = "baddate" -> [err |-> "ValueError", t |-> 0]
      [] OTHER -> [err |-> "MalformedTimestamp", t |-> 0]

\* timezone.localtime(t).isoformat()
isoformat(t) == IsoText(localtime(t), TRUE, UtcOffset)

(***************************************************************************)
(* Texts: str.strip() and django.core.validators.validate_email.           *)
(* A character is a one-character string; a character this notation has no *)
(* literal for is written by its code point, as "U+000B".  The characters  *)
(* of the model are those of Printable and Named; U+0000, which the        *)
(* database refuses in any text, is not among them.                        *)
(***************************************************************************)
\* the characters with the code points 32 to 126, in that order
Printable ==
    <<" ", "!", "\"", "#", "$", "%", "&", "'", "(", ")", "*", "+", ",", "-", ".", "/",
      "0", "1", "2", "3", "4", "5", "6", "7", "8", "9", ":", ";", "<", "=", ">", "?",
      "@", "A", "B", "C", "D", "E", "F", "G", "H", "I", "J", "K", "L", "M", "N", "O",
      "P", "Q", "R", "S", "T", "U", "V", "W", "X", "Y", "Z", "[", "\\", "]", "^", "_",
      "U+0060", "a", "b", "c", "d", "e", "f", "g", "h", "i", "j", "k", "l", "m", "n",
      "o", "p", "q", "r", "s", "t", "u", "v", "w", "x", "y", "z", "{", "|", "}", "~">>
\* the other characters of the model and their code points
Named ==
    ("U+0001" :> 1) @@ ("U+0008" :> 8) @@ ("\t" :> 9) @@ ("\n" :> 10)
    @@ ("U+000B" :> 11) @@ ("\f" :> 12) @@ ("\r" :> 13) @@ ("U+000E" :> 14)
    @@ ("U+001C" :> 28) @@ ("U+001F" :> 31) @@ ("U+007F" :> 127)
    @@ ("U+0085" :> 133) @@ ("U+00A0" :> 160) @@ ("U+00DC" :> 220)
    @@ ("U+00E9" :> 233)
    @@ ("U+00FC" :> 252) @@ ("U+0130" :> 304) @@ ("U+0131" :> 305)
    @@ ("U+017F" :> 383) @@ ("U+0307" :> 775) @@ ("U+212A" :> 8490)
    @@ ("U+3000" :> 12288) @@ ("U+3002" :> 12290)
    \* the letters with a dot above, which NFKC composes of a letter and U+0307
    @@ ("U+010B" :> 267) @@ ("U+0117" :> 279) @@ ("U+0121" :> 289)
    @@ ("U+017C" :> 380) @@ ("U+0227" :> 551) @@ ("U+022F" :> 559)
    @@ ("U+1E03" :> 7683) @@ ("U+1E0B" :> 7691) @@ ("U+1E1F" :> 7711)
    @@ ("U+1E23" :> 7715) @@ ("U+1E41" :> 7745) @@ ("U+1E45" :> 7749)
    @@ ("U+1E57" :> 7767) @@ ("U+1E59" :> 7769) @@ ("U+1E61" :> 7777)
    @@ ("U+1E6B" :> 7787) @@ ("U+1E87" :> 7815) @@ ("U+1E8B" :> 7819)
    @@ ("U+1E8F" :> 7823)
\* ord(c): the code point of a character
CodePoints == Named @@ [c \in {Printable[i] : i \in 1 .. Len(Printable)} |->
                           31 + (CHOOSE i \in 1 .. Len(Printable) : Printable[i] = c)]
ord(c) == CodePoints[c]
isascii(s) == \A i \in 1 .. Len(s) : ord(s[i]) < 128

\* str.isspace() of one character: the code points Python takes for whitespace
WhitespaceCodes ==
    (9 .. 13) \cup (28 .. 32) \cup {133, 160, 5760} \cup (8192 .. 8202)
    \cup {8232, 8233, 8239, 8287, 12288}
isspace(c) == ord(c) \in WhitespaceCodes

\* str.lstrip(), str.rstrip() and str.strip() without an argument: whitespace
\* of every kind is removed from the ends
RECURSIVE lstrip(_)
lstrip(s) == IF s # << >> /\ isspace(Head(s)) THEN lstrip(Tail(s)) ELSE s

RECURSIVE rstrip(_)
rstrip(s) ==
    IF s # << >> /\ isspace(s[Len(s)]) THEN rstrip(SubSeq(s, 1, Len(s) - 1)) ELSE s

strip(s) == rstrip(lstrip(s))

\* "c in s"
Contains(s, c) == \E i \in 1 .. Len(s) : s[i] = c

\* re.split on a class of separators: the pieces of s between them
RECURSIVE SplitAny(_, _)
SplitAny(s, seps) ==
    IF \A k \in 1 .. Len(s) : s[k] \notin seps THEN <<s>>
    ELSE LET i == CHOOSE k \in 1 .. Len(s) :
                      s[k] \in seps /\ \A j \in 1 .. k - 1 : s[j] \notin seps
         IN  <<SubSeq(s, 1, i - 1)>> \o SplitAny(SubSeq(s, i + 1, Len(s)), seps)

\* s.split(c): the pieces of s between the occurrences of c
Split(s, c) == SplitAny(s, {c})

\* s.rsplit(c, 1) for an s that contains c
RSplit1(s, c) ==
    LET i == CHOOSE k \in 1 .. Len(s) :
                 s[k] = c /\ \A j \in k + 1 .. Len(s) : s[j] # c
    IN  [head |-> SubSeq(s, 1, i - 1), tail |-> SubSeq(s, i + 1, Len(s))]

\* sep.join(pieces)
RECURSIVE Join(_, _)
Join(pieces, sep) ==
    IF pieces = << >> THEN << >>
    ELSE IF Len(pieces) = 1 THEN pieces[1]
    ELSE pieces[1] \o sep \o Join(Tail(pieces), sep)

Lower == {"a", "b", "c", "d", "e", "f", "g", "h", "i", "j", "k", "l", "m",
          "n", "o", "p", "q", "r", "s", "t", "u", "v", "w", "x", "y", "z"}
Upper == {"A", "B", "C", "D", "E", "F", "G", "H", "I", "J", "K", "L", "M",
          "N", "O", "P", "Q", "R", "S", "T", "U", "V", "W", "X", "Y", "Z"}
\* [A-Z] under re.IGNORECASE: the 52 letters and the four characters whose
\* case mapping is one of them (dotted capital I, dotless i, long s, Kelvin)
CaseExtras == {"U+0130", "U+0131", "U+017F", "U+212A"}
Letters == Lower \cup Upper \cup CaseExtras
Digits == {"0", "1", "2", "3", "4", "5", "6", "7", "8", "9"}
\* the class [-!#$%&'*+/=?^_`{}|~0-9A-Z] of EmailValidator.user_regex
AtomChars ==
    Letters \cup Digits \cup
    {"-", "!", "#", "$", "%", "&", "'", "*", "+", "/", "=", "?", "^", "_",
     "U+0060", "{", "}", "|", "~"}
\* the class [A-Z0-9-] of EmailValidator.domain_regex
LabelChars == Letters \cup Digits \cup {"-"}

AllIn(s, chars) == \A i \in 1 .. Len(s) : s[i] \in chars

\* user_regex, first alternative: atoms joined by dots
DotAtomOk(u) ==
    \A i \in 1 .. Len(Split(u, ".")) :
        LET atom == Split(u, ".")[i] IN atom # << >> /\ AllIn(atom, AtomChars)

\* user_regex, second alternative, the classes of a quoted string:
\* [\001-\010\013\014\016-\037!#-\[\]-\177] and, after a backslash,
\* [\001-\011\013\014\016-\177]
QuotedPlain(c) ==
    \/ ord(c) \in (1 .. 8) \cup {11, 12} \cup (14 .. 31) \cup {33}
                      \cup (35 .. 91) \cup (93 .. 127)
    \/ c \in CaseExtras
QuotedEscaped(c) ==
    \/ ord(c) \in (1 .. 9) \cup {11, 12} \cup (14 .. 127)
    \/ c \in CaseExtras
RECURSIVE QuotedBodyOk(_)
QuotedBodyOk(s) ==
    IF s = << >> THEN TRUE
    ELSE IF Head(s) = "\\"
         THEN Len(s) >= 2 /\ QuotedEscaped(s[2]) /\ QuotedBodyOk(SubSeq(s, 3, Len(s)))
         ELSE QuotedPlain(Head(s)) /\ QuotedBodyOk(Tail(s))
QuotedStringOk(u) ==
    /\ Len(u) >= 2
    /\ u[1] = "\""
    /\ u[Len(u)] = "\""
    /\ QuotedBodyOk(SubSeq(u, 2, Len(u) - 1))

\* EmailValidator.user_regex: a dot-atom or a quoted string
UserPartOk(u) == DotAtomOk(u) \/ QuotedStringOk(u)

\* EmailValidator.domain_regex: labels of 1 to 63 characters that neither
\* start nor end with a hyphen, each followed by a dot, then a last label of
\* 2 to 63 characters that does not end with one
DomainRegexOk(d) ==
    LET labels == Split(d, ".")
        n == Len(labels)
    IN  /\ n >= 2
        /\ \A i \in 1 .. n - 1 :
               /\ Len(labels[i]) \in 1 .. 63
               /\ AllIn(labels[i], LabelChars)
               /\ labels[i][1] # "-"
               /\ labels[i][Len(labels[i])] # "-"
        /\ Len(labels[n]) \in 2 .. 63
        /\ AllIn(labels[n], LabelChars)
        /\ labels[n][Len(labels[n])] # "-"

\* the value of a text of decimal digits
RECURSIVE DecimalValue(_)
DecimalValue(s) ==
    IF s = << >> THEN 0
    ELSE 10 * DecimalValue(SubSeq(s, 1, Len(s) - 1)) + (ord(s[Len(s)]) - 48)

\* ipaddress.IPv4Address: one octet, at most three ASCII digits, no leading
\* zero, at most 255
OctetOk(o) ==
    /\ o # << >>
    /\ AllIn(o, Digits)
    /\ Len(o) <= 3
    /\ (Len(o) > 1 => o[1] # "0")
    /\ DecimalValue(o) <= 255
\* validate_ipv4_address: four octets joined by dots
validate_ipv4_address(ip) ==
    /\ Len(Split(ip, ".")) = 4
    /\ \A i \in 1 .. 4 : OctetOk(Split(ip, ".")[i])

HexChars == Digits \cup {"a", "b", "c", "d", "e", "f", "A", "B", "C", "D", "E", "F"}
HexDigits == <<"0", "1", "2", "3", "4", "5", "6", "7", "8", "9",
               "a", "b", "c", "d", "e", "f">>
\* '%x' % n
RECURSIVE Hex(_)
Hex(n) == IF n < 16 THEN <<HexDigits[n + 1]>>
          ELSE Hex(n \div 16) \o <<HexDigits[(n % 16) + 1]>>
\* one group of an IPv6 address: 1 to 4 hexadecimal digits
HextetOk(h) == h # << >> /\ AllIn(h, HexChars) /\ Len(h) <= 4

\* the groups of an IPv6 address once an IPv4-style last group, when it has
\* one, is rewritten as two hexadecimal groups; << >> when that group is no
\* IPv4 address
\* the two hexadecimal groups of the four octets o
Ipv4Groups(o) ==
    <<Hex(DecimalValue(o[1]) * 256 + DecimalValue(o[2])),
      Hex(DecimalValue(o[3]) * 256 + DecimalValue(o[4]))>>
Ipv6PartsOf(parts, last) ==
    IF ~Contains(last, ".") THEN <<parts>>
    ELSE IF ~validate_ipv4_address(last) THEN << >>
    ELSE <<SubSeq(parts, 1, Len(parts) - 1) \o Ipv4Groups(Split(last, "."))>>
Ipv6Groups4(parts) == Ipv6PartsOf(parts, parts[Len(parts)])
Ipv6Parts(ip) == Ipv6Groups4(Split(ip, ":"))

\* validate_ipv6_address: ipaddress.IPv6Address accepts the text
\* the groups before the "::" at skip_index and those after it
Ipv6Compressed(parts, skip_index, parts_hi, parts_lo) ==
    /\ parts[1] = << >> => parts_hi = 0
    /\ parts[Len(parts)] = << >> => parts_lo = 0
    /\ 8 - (parts_hi + parts_lo) >= 1
    /\ \A i \in 1 .. parts_hi : HextetOk(parts[i])
    /\ \A i \in Len(parts) - parts_lo + 1 .. Len(parts) : HextetOk(parts[i])
\* the groups with the "::" among skips, when there is one
Ipv6Groups(parts, skips) ==
    /\ Len(parts) <= 9
    /\ Cardinality(skips) <= 1
    /\ IF skips # {}
       THEN \E skip_index \in skips :
                Ipv6Compressed(parts, skip_index,
                               IF parts[1] = << >> THEN skip_index - 2
                                                   ELSE skip_index - 1,
                               IF parts[Len(parts)] = << >>
                                   THEN Len(parts) - skip_index - 1
                                   ELSE Len(parts) - skip_index)
       ELSE /\ Len(parts) = 8
            /\ \A i \in 1 .. Len(parts) : HextetOk(parts[i])
\* the groups Ipv6Parts gives, when it gives any
Ipv6PartsOk(given) ==
    /\ given # << >>
    /\ Ipv6Groups(given[1], {i \in 2 .. Len(given[1]) - 1 : given[1][i] = << >>})
validate_ipv6_address(ip) ==
    /\ ip # << >>
    /\ Len(Split(ip, ":")) >= 3
    /\ Ipv6PartsOk(Ipv6Parts(ip))

\* validate_ipv46_address: an IPv4 or an IPv6 address
validate_ipv46_address(ip) == validate_ipv4_address(ip) \/ validate_ipv6_address(ip)

\* EmailValidator.literal_regex, \[([A-F0-9:.]+)\]\Z without regard to case,
\* and the address inside the brackets
LiteralOk(d) ==
    /\ Len(d) >= 3
    /\ d[1] = "["
    /\ d[Len(d)] = "]"
    /\ AllIn(SubSeq(d, 2, Len(d) - 1), HexChars \cup {":", "."})
    /\ validate_ipv46_address(SubSeq(d, 2, Len(d) - 1))

\* EmailValidator.validate_domain_part
validate_domain_part(d) == DomainRegexOk(d) \/ LiteralOk(d)

(***************************************************************************)
(* punycode(domain): domain.encode("idna"), Python's IDNA codec            *)
(***************************************************************************)
\* nameprep of one character: what the case folding of table B.2 and the
\* normalisation NFKC make of it on its own
NameprepChar(c) ==
    IF c \in Upper THEN <<Printable[ord(c) + 32 - 31]>>
    ELSE IF c = "U+00DC" THEN <<"U+00FC">>
    ELSE IF c = "U+0130" THEN <<"i", "U+0307">>
    ELSE IF c = "U+017F" THEN <<"s">>
    ELSE IF c = "U+212A" THEN <<"k">>
    ELSE IF c \in {"U+00A0", "U+3000"} THEN <<" ">>
    ELSE <<c>>
\* the characters nameprep prohibits (tables C.1.2 to C.9), looked for after
\* the normalisation: of this model's characters, the control U+0085
NameprepProhibited == {"U+0085"}
RECURSIVE NameprepEach(_)
NameprepEach(s) ==
    IF s = << >> THEN << >> ELSE NameprepChar(Head(s)) \o NameprepEach(Tail(s))
\* the canonical compositions among this model's characters: a letter and
\* the combining dot above U+0307 that follows it make one character
DotAbove ==
    ("a" :> "U+0227") @@ ("b" :> "U+1E03") @@ ("c" :> "U+010B") @@ ("d" :> "U+1E0B")
    @@ ("e" :> "U+0117") @@ ("f" :> "U+1E1F") @@ ("g" :> "U+0121")
    @@ ("h" :> "U+1E23") @@ ("m" :> "U+1E41") @@ ("n" :> "U+1E45")
    @@ ("o" :> "U+022F") @@ ("p" :> "U+1E57") @@ ("r" :> "U+1E59")
    @@ ("s" :> "U+1E61") @@ ("t" :> "U+1E6B") @@ ("w" :> "U+1E87")
    @@ ("x" :> "U+1E8B") @@ ("y" :> "U+1E8F") @@ ("z" :> "U+017C")
\* unicodedata.normalize("NFKC", ...) on the whole label: the composition
RECURSIVE Compose(_)
Compose(s) ==
    IF Len(s) < 2 THEN s
    ELSE IF s[2] = "U+0307" /\ s[1] \in DOMAIN DotAbove
         THEN <<DotAbove[s[1]]>> \o Compose(SubSeq(s, 3, Len(s)))
    ELSE <<s[1]>> \o Compose(Tail(s))
\* the label after the map (tables B.1 and B.2) and the normalisation NFKC
NameprepMap(s) == Compose(NameprepEach(s))
\* nameprep(label): [ok, text]
nameprep(label) ==
    LET mapped == NameprepMap(label)
    IN  [ok |-> \A i \in 1 .. Len(mapped) : mapped[i] \notin NameprepProhibited,
         text |-> mapped]

\* the punycode codec: digits, thresholds and the adaptation of the bias
PunycodeDigits ==
    <<"a", "b", "c", "d", "e", "f", "g", "h", "i", "j", "k", "l", "m",
      "n", "o", "p", "q", "r", "s", "t", "u", "v", "w", "x", "y", "z",
      "0", "1", "2", "3", "4", "5", "6", "7", "8", "9">>
T(j, bias) ==
    LET res == 36 * (j + 1) - bias
    IN  IF res < 1 THEN 1 ELSE IF res > 26 THEN 26 ELSE res
RECURSIVE generate_generalized_integer(_, _, _)
generate_generalized_integer(N, bias, j) ==
    LET t == T(j, bias)
    IN  IF N < t THEN <<PunycodeDigits[N + 1]>>
        ELSE <<PunycodeDigits[t + ((N - t) % (36 - t)) + 1]>>
             \o generate_generalized_integer((N - t) \div (36 - t), bias, j + 1)
RECURSIVE AdaptDivisions(_, _)
AdaptDivisions(delta, divisions) ==
    IF delta > 455 THEN AdaptDivisions(delta \div 35, divisions + 36)
    ELSE divisions + ((36 * delta) \div (delta + 38))
adapt(delta, first, numchars) ==
    LET d == IF first THEN delta \div 700 ELSE delta \div 2
    IN  AdaptDivisions(d + (d \div numchars), 0)

\* the code points of a set, ascending
RECURSIVE Ascend(_)
Ascend(codes) ==
    IF codes = {} THEN << >>
    ELSE LET m == CHOOSE c \in codes : \A e \in codes : c <= e
         IN  <<m>> \o Ascend(codes \ {m})

\* one pass over the text for the code point m: every smaller character
\* adds one to delta, every occurrence of m is written out as delta
\* st is [out, delta, bias, h]: what is written so far, the running delta,
\* the bias, and the number of characters dealt with, which the text's
\* length bounds
RECURSIVE PunycodeScan(_, _, _, _, _)
PunycodeScan(text, i, m, b, st) ==
    IF i > Len(text) \/ st.h > Len(text) THEN st
    ELSE IF ord(text[i]) < m
         THEN PunycodeScan(text, i + 1, m, b, [st EXCEPT !.delta = st.delta + 1])
    ELSE IF ord(text[i]) = m
         THEN PunycodeScan(text, i + 1, m, b,
                  [out |-> st.out \o generate_generalized_integer(st.delta, st.bias, 0),
                   delta |-> 0,
                   bias |-> adapt(st.delta, st.h = b, st.h + 1),
                   h |-> st.h + 1])
    ELSE PunycodeScan(text, i + 1, m, b, st)
\* the passes for the code points above 127, ascending
RECURSIVE PunycodeDeltas(_, _, _, _, _)
PunycodeDeltas(text, extended, n, b, st) ==
    IF extended = << >> THEN st.out
    ELSE PunycodeDeltas(text, Tail(extended), Head(extended) + 1, b,
             [PunycodeScan(text, 1, Head(extended), b,
                           [st EXCEPT !.delta = st.delta + (Head(extended) - n)
                                                              * (st.h + 1)])
                  EXCEPT !.delta = @ + 1])
\* text.encode("punycode")
punycode_encode(text) ==
    LET base == SelectSeq(text, LAMBDA c : ord(c) < 128)
        extended == Ascend({ord(text[i]) : i \in {k \in 1 .. Len(text) :
                                                     ord(text[k]) >= 128}})
        tail == PunycodeDeltas(text, extended, 128, Len(base),
                    [out |-> << >>, delta |-> 0, bias |-> 72, h |-> Len(base)])
    IN  IF base # << >> THEN base \o <<"-">> \o tail ELSE tail

AcePrefix == <<"x", "n", "-", "-">>
LabelLengthOk(label) == Len(label) \in 1 .. 63
\* encodings.idna.ToASCII(label): [ok, text], ok FALSE for a UnicodeError
\* ToASCII, step 7: the length of the result is checked
LengthChecked(text) == [ok |-> LabelLengthOk(text), text |-> text]
\* ToASCII, steps 2 to 6, on what nameprep made of the label
ToASCIIPrepared(label, prepared) ==
    IF ~prepared.ok THEN [ok |-> FALSE, text |-> label]
    ELSE IF isascii(prepared.text) THEN LengthChecked(prepared.text)
    ELSE IF Len(prepared.text) >= 4 /\ SubSeq(prepared.text, 1, 4) = AcePrefix
         THEN [ok |-> FALSE, text |-> label]
    ELSE LengthChecked(AcePrefix \o punycode_encode(prepared.text))
ToASCII(label) ==
    IF isascii(label) THEN LengthChecked(label)
    ELSE ToASCIIPrepared(label, nameprep(label))

\* the separators of labels: the full stop and the ideographic full stop
IdnaDots == {".", "U+3002"}
\* punycode(domain): [ok, text], ok FALSE for a UnicodeError.  An ASCII
\* domain is returned as it is when its labels have a length the codec
\* takes; of any other the labels are converted one by one.
\* the fast path of the codec: an ASCII domain with its labels
AsciiLabelsOk(ascii_labels) ==
    /\ \A i \in 1 .. Len(ascii_labels) - 1 : LabelLengthOk(ascii_labels[i])
    /\ Len(ascii_labels[Len(ascii_labels)]) < 64
\* the converted labels joined by dots again
JoinConverted(converted, trailing_dot) ==
    [ok |-> \A i \in DOMAIN converted : converted[i].ok,
     text |-> Join([i \in DOMAIN converted |-> converted[i].text], <<".">>)
                  \o (IF trailing_dot THEN <<".">> ELSE << >>)]
ConvertLabels(labels, trailing_dot) ==
    JoinConverted([i \in 1 .. Len(labels) |-> ToASCII(labels[i])], trailing_dot)
\* the labels between the separators; an empty last one is a trailing dot
IdnaLabels(split) ==
    IF split # << >> /\ split[Len(split)] = << >>
    THEN ConvertLabels(SubSeq(split, 1, Len(split) - 1), TRUE)
    ELSE ConvertLabels(split, FALSE)
punycode(domain) ==
    IF domain = << >> THEN [ok |-> TRUE, text |-> << >>]
    ELSE IF isascii(domain)
         THEN [ok |-> AsciiLabelsOk(Split(domain, ".")), text |-> domain]
    ELSE IdnaLabels(SplitAny(domain, IdnaDots))

\* the domains EmailValidator takes without a look: domain_allowlist
domain_allowlist == {<<"l", "o", "c", "a", "l", "h", "o", "s", "t">>}

\* EmailValidator.__call__ on the domain part: allow-listed, valid as it is,
\* or valid once converted by punycode
\* the domain as it is and, when punycode raises no UnicodeError, converted
DomainAttempts(d, converted) ==
    {d} \cup (IF converted.ok THEN {converted.text} ELSE {})
DomainPartOk(d) ==
    \/ d \in domain_allowlist
    \/ \E attempt \in DomainAttempts(d, punycode(d)) : validate_domain_part(attempt)

\* validate_email(value): TRUE when no ValidationError is raised
EmailPartsOk(parts) == UserPartOk(parts.head) /\ DomainPartOk(parts.tail)
validate_email(value) ==
    /\ value # << >>
    /\ Contains(value, "@")
    /\ Len(value) <= 320
    /\ EmailPartsOk(RSplit1(value, "@"))

\* Appointment.reason: max_length=200, checked by the views
REASON_MAX_LENGTH == 200
\* the widths of the other text columns: name max_length=255, email the 254
\* of an EmailField, phone max_length=50; no view checks them
NAME_MAX_LENGTH == 255
EMAIL_MAX_LENGTH == 254
PHONE_MAX_LENGTH == 50

(***************************************************************************)
(* Request bodies                                                          *)
(***************************************************************************)
\* the empty JSON object
NoBody == << >>
\* payload.get(key): whether the body carries the key, and its value
Has(payload, key) == key \in DOMAIN payload
\* (payload.get(key) or "").strip()
GetStripped(payload, key) ==
    IF Has(payload, key) THEN strip(payload[key]) ELSE << >>

allowed_fields == {"start_time", "name", "email", "phone", "reason"}
\* the keys a body of this model may carry besides the allowed ones, each
\* with the characters it is written with
KeyText ==
    ("bar" :> <<"b", "a", "r">>) @@ ("foo" :> <<"f", "o", "o">>)
    @@ ("zip" :> <<"z", "i", "p">>) @@ ("Foo" :> <<"F", "o", "o">>)
    @@ ("id" :> <<"i", "d">>)
    @@ ("created_at" :> <<"c", "r", "e", "a", "t", "e", "d", "_", "a", "t">>)
\* a < b of two texts: the first character in which they differ decides, by
\* code point, and a text comes after each of its proper prefixes
TextBefore(a, b) ==
    \E i \in 1 .. Len(b) :
        /\ \A j \in 1 .. i - 1 : j <= Len(a) /\ a[j] = b[j]
        /\ (i > Len(a) \/ (i - 1 < Len(a) /\ ord(a[i]) < ord(b[i])))
\* sorted as it would be with the largest key first
RECURSIVE sorted_descending(_)
sorted_descending(keys) ==
    IF keys = {} THEN << >>
    ELSE LET last == CHOOSE k \in keys :
                         \A j \in keys \ {k} : TextBefore(KeyText[j], KeyText[k])
         IN  <<last>> \o sorted_descending(keys \ {last})

\* sorted(unknown_keys): the keys, the smallest first
RECURSIVE sorted(_)
sorted(keys) ==
    IF keys = {} THEN << >>
    ELSE LET first == CHOOSE k \in keys :
                          \A j \in keys \ {k} : TextBefore(KeyText[k], KeyText[j])
         IN  <<first>> \o sorted(keys \ {first})

(***************************************************************************)
(* The appointments table (models/appointment.py)                          *)
(***************************************************************************)
NewRow(start_time, name, email, phone, reason, created_at) ==
    [start_time |-> start_time, name |-> name, email |-> email,
     phone |-> phone, reason |-> reason, created_at |-> created_at]

\* a row the database refuses with DataError: a text longer than its column
ValueTooLong(row) ==
    \/ Len(row.name) > NAME_MAX_LENGTH
    \/ Len(row.email) > EMAIL_MAX_LENGTH
    \/ Len(row.phone) > PHONE_MAX_LENGTH
    \/ Len(row.reason) > REASON_MAX_LENGTH

\* the table as it would be without unique=True
UniqueViolation_off(table, pk, t) == FALSE

\* start_time = models.DateTimeField(unique=True): writing t into row pk
\* breaks the constraint when another row holds t
UniqueViolation(table, pk, t) ==
    \E other \in DOMAIN table : other # pk /\ table[other].start_time = t

\* the query as it would be without .exclude(pk=appointment.pk)
Conflicting_self_included(table, pk, t) ==
    \E other \in DOMAIN table : table[other].start_time = t

\* Appointment.objects.filter(start_time=t).exclude(pk=pk).exists()
Conflicting(table, pk, t) ==
    \E other \in DOMAIN table : other # pk /\ table[other].start_time = t

\* filter(start_time__gte=lo, start_time__lt=hi).values_list("start_time")
BookedIn(table, lo, hi) ==
    {table[i].start_time : i \in {j \in DOMAIN table :
                                     lo <= table[j].start_time /\ table[j].start_time < hi}}

\* the delete as it would be if the row were kept
RemoveRow_row_kept(table, pk) == table

RemoveRow(table, pk) == [i \in DOMAIN table \ {pk} |-> table[i]]

serialize_appointment(pk, appointment) ==
    [id |-> pk,
     start_time |-> isoformat(appointment.start_time),
     name |-> appointment.name,
     email |-> appointment.email,
     phone |-> appointment.phone,
     reason |-> appointment.reason,
     created_at |-> isoformat(appointment.created_at)]

(***************************************************************************)
(* Bounds and the inputs the requests are drawn from                       *)
(***************************************************************************)
\* requests accepted in one run
MaxRequests == 2
\* times the clock advances in one run
MaxTicks == 1
\* the largest page asked for
MaxPage == 1
\* days after EpochMonday from which the calendar functions' arguments are drawn
MaxSlotDay == 6

\* Monday 2026-11-02T00:00:00Z, day 20759 of the epoch
EpochMonday == 20759 * SecondsPerDay
At(day, h, m, s) == EpochMonday + day * SecondsPerDay + h * SecondsPerHour + m * 60 + s

\* the clock starts on Monday 08:45 and advances an hour at a time
ClockStart == At(0, 8, 45, 0)
TickStep == SecondsPerHour

\* two slots of the week: Monday's first and Monday's closing slot
SlotA == At(0, 9, 0, 0)
SlotB == At(0, 17, 0, 0)

Ann == <<"A", "n", "n">>
Bob == <<"B", "o", "b">>
Blank == <<" ", " ">>
EmailA == <<"a", "@", "x", ".", "i", "o">>
EmailB == <<"b", ".", "c", "@", "y", "-", "z", ".", "o", "r", "g">>
EmailNoAt == <<"a", ".", "x", ".", "i", "o">>
EmailNoDot == <<"a", "@", "x">>
Phone == <<"5", "5", "5">>
Flu == <<"f", "l", "u">>
Pad(text) == <<" ">> \o text \o <<" ">>
\* whitespace of other kinds around a text: a tab and a no-break space
\* before it, a line feed and a carriage return after it
PadWide(text) == <<"\t", "U+00A0">> \o text \o <<"\n", "\r">>
\* whitespace only, with no space in it
BlankWide == <<"\t", "\n", "U+000B">>
\* addresses with an apostrophe, a quoted string, an address literal and a
\* domain that is no ASCII
EmailApostrophe == <<"o", "'", "b", "@", "x", ".", "i", "o">>
EmailQuoted == <<"\"", "a", "@", "b", "\"", "@", "x", ".", "i", "o">>
EmailLiteral == <<"a", "@", "[", ":", ":", "1", "]">>
\* the e and the combining dot above that follows it are one character to the codec
EmailIdn == <<"a", "@", "b", "U+00FC", "c", "h", "e", "U+0307", "r", ".", "d", "e">>
EmailBadLiteral == <<"a", "@", "[", "1", ".", "2", ".", "3", "]">>
Repeat(c, n) == [i \in 1 .. n |-> c]

\* a complete, valid body for a create at instant t
Booking(t) ==
    [start_time |-> isoformat(t), name |-> Pad(Ann), email |-> Pad(EmailA)]
With(payload, key, value) == (key :> value) @@ payload
Without(payload, key) == [k \in DOMAIN payload \ {key} |-> payload[k]]

PostBodies ==
    { Booking(SlotA),
      Booking(SlotB),
      \* the same instant written without an offset, and at +01:00
      With(Booking(SlotA), "start_time", IsoText(localtime(SlotA), FALSE, 0)),
      With(Booking(SlotA), "start_time",
           IsoText(SlotA + SecondsPerHour, TRUE, SecondsPerHour)),
      With(With(Booking(SlotB), "phone", Pad(Phone)), "reason",
           Pad(Repeat("x", REASON_MAX_LENGTH))),
      Without(Booking(SlotA), "start_time"),
      With(Booking(SlotA), "start_time", EmptyText),
      With(Booking(SlotA), "name", Blank),
      Without(Booking(SlotA), "email"),
      With(Booking(SlotA), "email", EmailNoAt),
      With(Booking(SlotA), "email", EmailNoDot),
      With(Booking(SlotA), "reason", Repeat("x", REASON_MAX_LENGTH + 1)),
      With(Booking(SlotA), "start_time", MalformedText),
      With(Booking(SlotA), "start_time", BadDateText),
      With(Booking(SlotA), "start_time", isoformat(SlotA + 15 * 60)),
      With(Booking(SlotA), "start_time", isoformat(SlotA - SecondsPerHour)),
      With(Booking(SlotA), "start_time", isoformat(SlotA + 5 * SecondsPerDay)),
      \* half a minute into the closing slot
      With(Booking(SlotB), "start_time", isoformat(SlotB + 30)),
      \* whitespace of other kinds, and the other forms of an address
      With(Booking(SlotA), "name", BlankWide),
      With(With(Booking(SlotB), "name", PadWide(Bob)), "email", PadWide(EmailApostrophe)),
      With(Booking(SlotB), "email", EmailIdn),
      With(Booking(SlotB), "email", EmailBadLiteral),
      \* texts longer than their columns
      With(Booking(SlotB), "name", Repeat("n", NAME_MAX_LENGTH + 1)),
      With(Booking(SlotA), "name", Repeat("n", NAME_MAX_LENGTH + 1)),
      With(Booking(SlotB), "email", Repeat("a", EMAIL_MAX_LENGTH - 4) \o EmailA),
      With(Booking(SlotB), "phone", Repeat("5", PHONE_MAX_LENGTH + 1)),
      With(With(Booking(SlotB), "name", Repeat("n", NAME_MAX_LENGTH)), "phone",
           Repeat("5", PHONE_MAX_LENGTH)) }

PatchBodies ==
    { NoBody,
      [start_time |-> isoformat(SlotA)],
      [start_time |-> isoformat(SlotB)],
      [start_time |-> MalformedText],
      [start_time |-> BadDateText],
      [start_time |-> isoformat(SlotB + 15 * 60)],
      [name |-> Pad(Bob)],
      [name |-> Blank],
      [email |-> Pad(EmailB)],
      [email |-> EmailNoAt],
      [phone |-> Pad(Phone)],
      [reason |-> Pad(Flu)],
      [start_time |-> isoformat(SlotB), name |-> Blank],
      [start_time |-> isoformat(SlotB), name |-> Pad(Bob), email |-> Blank],
      [name |-> Pad(Bob), phone |-> Phone, reason |-> Repeat("x", REASON_MAX_LENGTH + 1)],
      [name |-> Pad(Bob), email |-> Pad(EmailB), phone |-> Phone, reason |-> Flu],
      [foo |-> Flu, name |-> Pad(Bob)],
      [foo |-> Flu, bar |-> Flu, name |-> Pad(Bob)],
      [zip |-> Flu],
      [name |-> BlankWide],
      [name |-> PadWide(Bob), email |-> PadWide(EmailQuoted)],
      [email |-> EmailLiteral],
      [email |-> EmailBadLiteral],
      [name |-> Repeat("n", NAME_MAX_LENGTH + 1)],
      [start_time |-> isoformat(SlotB), phone |-> Repeat("5", PHONE_MAX_LENGTH + 1)],
      [email |-> Repeat("a", EMAIL_MAX_LENGTH - 4) \o EmailA, reason |-> Pad(Flu)],
      [name |-> Repeat("n", NAME_MAX_LENGTH), phone |-> Repeat("5", PHONE_MAX_LENGTH)],
      [Foo |-> Flu, foo |-> Flu, id |-> Flu, created_at |-> Flu, reason |-> Flu],
      \* several invalid fields at once
      [start_time |-> isoformat(SlotB + 15 * 60), name |-> Blank, email |-> EmailNoAt],
      [name |-> Blank, email |-> EmailNoAt, reason |-> Repeat("x", REASON_MAX_LENGTH + 1)],
      [email |-> EmailNoAt, phone |-> Pad(Phone),
       reason |-> Repeat("x", REASON_MAX_LENGTH + 1)] }

\* the ids requests name
Ids == 1 .. 3

\* what concurrent workers are asked
RacePostBodies ==
    { Booking(SlotA),
      Booking(SlotB),
      With(Booking(SlotA), "name", Blank),
      With(Booking(SlotA), "phone", Repeat("5", PHONE_MAX_LENGTH + 1)) }
RacePatchBodies ==
    { [start_time |-> isoformat(SlotA)],
      [start_time |-> isoformat(SlotB)],
      [name |-> Pad(Bob)],
      [phone |-> Pad(Phone)],
      [start_time |-> isoformat(SlotB), name |-> Blank],
      [foo |-> Flu, name |-> Pad(Bob)],
      [phone |-> Repeat("5", PHONE_MAX_LENGTH + 1)] }
RaceIds == 1 .. 2

\* the page query parameter: an integer text, or anything else
PageParam(isInt, n) == [int |-> isInt, n |-> n]
PageParams == {PageParam(TRUE, n) : n \in -1 .. MaxPage} \cup {PageParam(FALSE, 0)}
RacePageParams == {PageParam(TRUE, n) : n \in 0 .. MaxPage}

(***************************************************************************)
(* Requests and responses                                                  *)
(***************************************************************************)
Workers == {"w1", "w2"}

NoLoc == << >>
NoData == << >>

Request(op, id, payload, page) ==
    [op |-> op, id |-> id, payload |-> payload, page |-> page]
NoRequest == Request("none", 0, NoBody, 0)

Response(status, error, data) ==
    [status |-> status, error |-> error, data |-> data]
NoResponse == Response(0, "none", NoData)

HTTP_200_OK == 200
HTTP_201_CREATED == 201
HTTP_204_NO_CONTENT == 204
HTTP_400_BAD_REQUEST == 400
HTTP_404_NOT_FOUND == 404
HTTP_409_CONFLICT == 409
\* an exception no handler catches: Django answers 500
HTTP_500_INTERNAL_SERVER_ERROR == 500

\* the except clauses of post and patch: ValidationError gives 400 and
\* IntegrityError 409; ValueError, DatabaseError and its subclass DataError
\* are caught by neither
Unhandled == {"ValueError", "DatabaseError", "DataError"}
StatusOfError(err) ==
    IF err \in Unhandled THEN HTTP_500_INTERNAL_SERVER_ERROR
    ELSE IF err = "SlotConflict" THEN HTTP_409_CONFLICT
    ELSE HTTP_400_BAD_REQUEST

Finish(w, response) ==
    /\ pc' = [pc EXCEPT ![w] = "done"]
    /\ resp' = [resp EXCEPT ![w] = response]
    /\ loc' = [loc EXCEPT ![w] = NoLoc]

Goto(w, step, locals) ==
    /\ pc' = [pc EXCEPT ![w] = step]
    /\ resp' = [resp EXCEPT ![w] = NoResponse]
    /\ loc' = [loc EXCEPT ![w] = locals]

\* a worker takes its next request once the previous one is answered
Accept(w, request) ==
    /\ pc[w] \in {"idle", "done"}
    /\ served < MaxRequests
    /\ served' = served + 1
    /\ req' = [req EXCEPT ![w] = request]

(***************************************************************************)
(* AppointmentCollectionView.post                                          *)
(***************************************************************************)
\* lines 66-81: the checks before the insert, in the order of the code
PostChecks(payload, clock) ==
    LET start_time_raw == IF Has(payload, "start_time") THEN payload["start_time"]
                                                        ELSE EmptyText
        name == GetStripped(payload, "name")
        email == GetStripped(payload, "email")
        phone == GetStripped(payload, "phone")
        reason == GetStripped(payload, "reason")
        parsed == parse_start_time(start_time_raw)
        fields == NewRow(parsed.t, name, email, phone, reason, 0)
    IN  IF start_time_raw.kind = "empty" \/ name = << >> \/ email = << >>
            THEN [err |-> "MissingField", fields |-> NoLoc]
        ELSE IF ~validate_email(email)
            THEN [err |-> "InvalidEmail", fields |-> NoLoc]
        ELSE IF Len(reason) > REASON_MAX_LENGTH
            THEN [err |-> "ReasonTooLong", fields |-> NoLoc]
        ELSE IF parsed.err # "ok"
            THEN [err |-> parsed.err, fields |-> NoLoc]
        ELSE IF validate_slot(parsed.t, clock) # "ok"
            THEN [err |-> validate_slot(parsed.t, clock), fields |-> NoLoc]
        ELSE [err |-> "ok", fields |-> fields]

PostValidate(w, bodies) ==
    \E payload \in bodies :
        LET checked == PostChecks(payload, now) IN
        /\ Accept(w, Request("post", 0, payload, 0))
        /\ IF checked.err = "ok"
           THEN Goto(w, "post_create", checked.fields)
           ELSE Finish(w, Response(StatusOfError(checked.err), checked.err, NoData))
        /\ UNCHANGED <<now, store, nextId, arg, out>>

\* lines 83-90, Appointment.objects.create, first half: the object is built
\* and created_at (auto_now_add) is read from the clock before anything is
\* sent to the database
PostCreate(w) ==
    /\ pc[w] = "post_create"
    /\ Goto(w, "post_insert", [loc[w] EXCEPT !.created_at = now])
    /\ UNCHANGED <<now, store, nextId, req, served, arg, out>>

\* lines 83-101, Appointment.objects.create, second half: the INSERT.  A text
\* longer than its column raises DataError, which no except clause catches;
\* whether the id sequence has advanced by then depends on when the database
\* driver has the value checked.  A taken start_time raises IntegrityError
\* after the id is drawn, and the sequence does not give it back.
PostInsert(w) ==
    /\ pc[w] = "post_insert"
    /\ IF ValueTooLong(loc[w])
       THEN /\ Finish(w, Response(HTTP_500_INTERNAL_SERVER_ERROR, "DataError", NoData))
            /\ store' = store
            /\ nextId' \in {nextId, nextId + 1}
       ELSE IF UniqueViolation(store, nextId, loc[w].start_time)
       THEN /\ Finish(w, Response(HTTP_409_CONFLICT, "SlotConflict", NoData))
            /\ store' = store
            /\ nextId' = nextId + 1
       ELSE /\ store' = store @@ (nextId :> loc[w])
            /\ nextId' = nextId + 1
            /\ Finish(w, Response(HTTP_201_CREATED, "none",
                                  serialize_appointment(nextId, loc[w])))
    /\ UNCHANGED <<now, req, served, arg, out>>

(***************************************************************************)
(* AppointmentDetailView                                                   *)
(***************************************************************************)
\* get: get_object, then the serialized appointment or 404
GetDetail(w, ids) ==
    \E id \in ids :
        /\ Accept(w, Request("get", id, NoBody, 0))
        /\ IF id \in DOMAIN store
           THEN Finish(w, Response(HTTP_200_OK, "none",
                                   serialize_appointment(id, store[id])))
           ELSE Finish(w, Response(HTTP_404_NOT_FOUND, "NotFound", NoData))
        /\ UNCHANGED <<now, store, nextId, arg, out>>

\* the fields as they would be set without "if not name: raise"
PatchFields_blank_name_kept(appointment, payload) ==
    LET name == GetStripped(payload, "name")
        email == GetStripped(payload, "email")
        phone == GetStripped(payload, "phone")
        reason == GetStripped(payload, "reason")
        a1 == IF Has(payload, "name") THEN [appointment EXCEPT !.name = name]
                                      ELSE appointment
        a2 == IF Has(payload, "email") THEN [a1 EXCEPT !.email = email] ELSE a1
        a3 == IF Has(payload, "phone") THEN [a2 EXCEPT !.phone = phone] ELSE a2
        a4 == IF Has(payload, "reason") THEN [a3 EXCEPT !.reason = reason] ELSE a3
    IN  IF Has(payload, "email") /\ email = << >>
            THEN [err |-> "BlankField(email)", appointment |-> a1]
        ELSE IF Has(payload, "email") /\ ~validate_email(email)
            THEN [err |-> "InvalidEmail", appointment |-> a1]
        ELSE IF Has(payload, "reason") /\ Len(reason) > REASON_MAX_LENGTH
            THEN [err |-> "ReasonTooLong", appointment |-> a3]
        ELSE [err |-> "ok", appointment |-> a4]

\* patch, lines 214-234: name, email, phone and reason set on the loaded object
PatchFields(appointment, payload) ==
    LET name == GetStripped(payload, "name")
        email == GetStripped(payload, "email")
        phone == GetStripped(payload, "phone")
        reason == GetStripped(payload, "reason")
        a1 == IF Has(payload, "name") THEN [appointment EXCEPT !.name = name]
                                      ELSE appointment
        a2 == IF Has(payload, "email") THEN [a1 EXCEPT !.email = email] ELSE a1
        a3 == IF Has(payload, "phone") THEN [a2 EXCEPT !.phone = phone] ELSE a2
        a4 == IF Has(payload, "reason") THEN [a3 EXCEPT !.reason = reason] ELSE a3
    IN  IF Has(payload, "name") /\ name = << >>
            THEN [err |-> "BlankField(name)", appointment |-> appointment]
        ELSE IF Has(payload, "email") /\ email = << >>
            THEN [err |-> "BlankField(email)", appointment |-> a1]
        ELSE IF Has(payload, "email") /\ ~validate_email(email)
            THEN [err |-> "InvalidEmail", appointment |-> a1]
        ELSE IF Has(payload, "reason") /\ Len(reason) > REASON_MAX_LENGTH
            THEN [err |-> "ReasonTooLong", appointment |-> a3]
        ELSE [err |-> "ok", appointment |-> a4]

\* the handler as it would be if the stored start_time were validated again
PatchRest_slot_rechecked(w, pk, appointment, payload) ==
    LET fields == PatchFields(appointment, payload)
        slot_err == validate_slot(appointment.start_time, now)
    IN
    IF slot_err # "ok"
    THEN Finish(w, Response(StatusOfError(slot_err), slot_err, NoData))
    ELSE IF fields.err = "ok"
    THEN Goto(w, "patch_save",
              [pk |-> pk, appointment |-> fields.appointment, parsed_time |-> 0])
    ELSE Finish(w, Response(StatusOfError(fields.err), fields.err, NoData))

\* the handler from line 214 on, once start_time is dealt with
PatchRest(w, pk, appointment, payload) ==
    LET fields == PatchFields(appointment, payload) IN
    IF fields.err = "ok"
    THEN Goto(w, "patch_save",
              [pk |-> pk, appointment |-> fields.appointment, parsed_time |-> 0])
    ELSE Finish(w, Response(StatusOfError(fields.err), fields.err, NoData))

\* patch, lines 178-196: get_object and the unknown-key check
PatchLoad(w, ids, bodies) ==
    \E id \in ids, payload \in bodies :
        LET unknown_keys == DOMAIN payload \ allowed_fields IN
        /\ Accept(w, Request("patch", id, payload, 0))
        /\ IF id \notin DOMAIN store
           THEN Finish(w, Response(HTTP_404_NOT_FOUND, "NotFound", NoData))
           ELSE IF unknown_keys # {}
           THEN Finish(w, Response(HTTP_400_BAD_REQUEST, "UnsupportedField",
                                   sorted(unknown_keys)))
           ELSE IF Has(payload, "start_time")
           THEN Goto(w, "patch_validate",
                     [pk |-> id, appointment |-> store[id], parsed_time |-> 0])
           ELSE PatchRest(w, id, store[id], payload)
        /\ UNCHANGED <<now, store, nextId, arg, out>>

\* patch, lines 200-201: parse_start_time and validate_slot
PatchValidate(w) ==
    LET parsed == parse_start_time(req[w].payload["start_time"])
        slot_err == IF parsed.err = "ok" THEN validate_slot(parsed.t, now)
                                         ELSE parsed.err
    IN  /\ pc[w] = "patch_validate"
        /\ IF slot_err = "ok"
           THEN Goto(w, "patch_check", [loc[w] EXCEPT !.parsed_time = parsed.t])
           ELSE Finish(w, Response(StatusOfError(slot_err), slot_err, NoData))
        /\ UNCHANGED <<now, store, nextId, req, served, arg, out>>

\* the handler as it would be with the other fields checked before the conflict
PatchCheck_fields_first(w) ==
    LET fields == PatchFields([loc[w].appointment EXCEPT !.start_time = loc[w].parsed_time],
                              req[w].payload)
    IN  /\ pc[w] = "patch_check"
        /\ IF fields.err # "ok"
           THEN Finish(w, Response(StatusOfError(fields.err), fields.err, NoData))
           ELSE IF Conflicting(store, loc[w].pk, loc[w].parsed_time)
           THEN Finish(w, Response(HTTP_409_CONFLICT, "SlotConflict", NoData))
           ELSE Goto(w, "patch_save",
                     [pk |-> loc[w].pk, appointment |-> fields.appointment,
                      parsed_time |-> 0])
        /\ UNCHANGED <<now, store, nextId, req, served, arg, out>>

\* patch, lines 202-234: the conflict pre-check, the assignment of start_time,
\* then the other fields
PatchCheck(w) ==
    /\ pc[w] = "patch_check"
    /\ IF Conflicting(store, loc[w].pk, loc[w].parsed_time)
       THEN Finish(w, Response(HTTP_409_CONFLICT, "SlotConflict", NoData))
       ELSE PatchRest(w, loc[w].pk,
                      [loc[w].appointment EXCEPT !.start_time = loc[w].parsed_time],
                      req[w].payload)
    /\ UNCHANGED <<now, store, nextId, req, served, arg, out>>

\* the save as it would be with "reason" left out of update_fields
PatchSave_reason_not_saved(w) ==
    LET pk == loc[w].pk
        appointment == loc[w].appointment
    IN  /\ pc[w] = "patch_save"
        /\ IF pk \notin DOMAIN store
           THEN /\ \E err \in IF ValueTooLong(appointment)
                              THEN {"DatabaseError", "DataError"}
                              ELSE {"DatabaseError"} :
                       Finish(w, Response(HTTP_500_INTERNAL_SERVER_ERROR, err, NoData))
                /\ store' = store
           ELSE IF ValueTooLong(appointment)
           THEN /\ Finish(w, Response(HTTP_500_INTERNAL_SERVER_ERROR,
                                      "DataError", NoData))
                /\ store' = store
           ELSE IF UniqueViolation(store, pk, appointment.start_time)
           THEN /\ Finish(w, Response(HTTP_409_CONFLICT, "SlotConflict", NoData))
                /\ store' = store
           ELSE /\ store' = [store EXCEPT ![pk] =
                                [appointment EXCEPT !.created_at = store[pk].created_at,
                                                    !.reason = store[pk].reason]]
                /\ Finish(w, Response(HTTP_200_OK, "none",
                                      serialize_appointment(pk, appointment)))
        /\ UNCHANGED <<now, nextId, req, served, arg, out>>

\* patch, lines 236-248: save(update_fields=[...]) inside transaction.atomic().
\* An UPDATE that matches no row raises DatabaseError, one with a text longer
\* than its column DataError, and one that breaks the unique constraint
\* IntegrityError.  With no row and too long a text it is one of the first
\* two, as the database driver has the value checked before or with the row.
PatchSave(w) ==
    LET pk == loc[w].pk
        appointment == loc[w].appointment
    IN  /\ pc[w] = "patch_save"
        /\ IF pk \notin DOMAIN store
           THEN /\ \E err \in IF ValueTooLong(appointment)
                              THEN {"DatabaseError", "DataError"}
                              ELSE {"DatabaseError"} :
                       Finish(w, Response(HTTP_500_INTERNAL_SERVER_ERROR, err, NoData))
                /\ store' = store
           ELSE IF ValueTooLong(appointment)
           THEN /\ Finish(w, Response(HTTP_500_INTERNAL_SERVER_ERROR,
                                      "DataError", NoData))
                /\ store' = store
           ELSE IF UniqueViolation(store, pk, appointment.start_time)
           THEN /\ Finish(w, Response(HTTP_409_CONFLICT, "SlotConflict", NoData))
                /\ store' = store
           ELSE /\ store' = [store EXCEPT ![pk] =
                                [appointment EXCEPT !.created_at = store[pk].created_at]]
                /\ Finish(w, Response(HTTP_200_OK, "none",
                                      serialize_appointment(pk, appointment)))
        /\ UNCHANGED <<now, nextId, req, served, arg, out>>

\* delete, lines 252-255: get_object
DeleteLoad(w, ids) ==
    \E id \in ids :
        /\ Accept(w, Request("delete", id, NoBody, 0))
        /\ IF id \in DOMAIN store
           THEN Goto(w, "delete_row", [pk |-> id])
           ELSE Finish(w, Response(HTTP_404_NOT_FOUND, "NotFound", NoData))
        /\ UNCHANGED <<now, store, nextId, arg, out>>

\* delete, lines 257-258: appointment.delete(), a DELETE by primary key
DeleteRow(w) ==
    /\ pc[w] = "delete_row"
    /\ store' = RemoveRow(store, loc[w].pk)
    /\ Finish(w, Response(HTTP_204_NO_CONTENT, "none", NoData))
    /\ UNCHANGED <<now, nextId, req, served, arg, out>>

(***************************************************************************)
(* AvailableSlotsView.get                                                  *)
(***************************************************************************)
\* lines 112-117: int(page_param), 0 when that fails, and never below 0
WeekOffset(page_param) ==
    IF page_param.int /\ page_param.n > 0 THEN page_param.n ELSE 0

\* lines 119-120: the week's range, from the clock, and its slots
AvailRange(w, params) ==
    \E page_param \in params :
        LET week_offset == WeekOffset(page_param)
            range == get_week_range(week_offset, now)
        IN  /\ Accept(w, Request("available", 0, NoBody, page_param))
            /\ Goto(w, "avail_query",
                    [week_offset |-> week_offset, week_start |-> range.start,
                     week_end |-> range.end,
                     week_slots |-> generate_business_slots(range.start),
                     booked_slots |-> {}])
            /\ UNCHANGED <<now, store, nextId, arg, out>>

\* lines 122-126: the booked start times of the week, from the table
AvailQuery(w) ==
    /\ pc[w] = "avail_query"
    /\ Goto(w, "avail_filter",
            [loc[w] EXCEPT !.booked_slots =
                 BookedIn(store, Instant(loc[w].week_start),
                          Instant(loc[w].week_end))])
    /\ UNCHANGED <<now, store, nextId, req, served, arg, out>>

\* the loop as it would be without "if slot in booked_slots: continue"
AvailableSlots_booked_kept(week_slots, booked_slots, is_current_week, clock) ==
    LET Keep(slot) == ~(is_current_week /\ Instant(slot) < clock)
    IN  SelectSeq(week_slots, Keep)

\* the loop as it would be without "if is_current_week and slot < now: continue"
AvailableSlots_past_kept(week_slots, booked_slots, is_current_week, clock) ==
    LET Keep(slot) == Instant(slot) \notin booked_slots
    IN  SelectSeq(week_slots, Keep)

\* lines 131-137: the slots kept; datetimes are compared as instants
AvailableSlots(week_slots, booked_slots, is_current_week, clock) ==
    LET Keep(slot) == /\ Instant(slot) \notin booked_slots
                      /\ ~(is_current_week /\ Instant(slot) < clock)
    IN  SelectSeq(week_slots, Keep)

\* line 137: timezone.localtime(slot).isoformat() of each slot kept
IsoEach(slots) == [i \in 1 .. Len(slots) |-> isoformat(Instant(slots[i]))]

\* lines 128-152: the clock is read again, the slots filtered and the page built
AvailFilter(w) ==
    LET week_offset == loc[w].week_offset
        available_slots ==
            AvailableSlots(loc[w].week_slots,
                           loc[w].booked_slots, week_offset = 0, now)
    IN  /\ pc[w] = "avail_filter"
        /\ Finish(w, Response(HTTP_200_OK, "none",
              [page |-> week_offset,
               week_start |-> date(localtime(Instant(loc[w].week_start))),
               week_end |-> date(localtime(Instant(Plus(loc[w].week_end, -1)))),
               available_slots |-> IsoEach(available_slots),
               count |-> Len(available_slots),
               has_previous |-> week_offset > 0,
               \* None is the empty tuple
               previous_page |-> IF week_offset > 0 THEN <<week_offset - 1>> ELSE << >>,
               next_page |-> week_offset + 1]))
        /\ UNCHANGED <<now, store, nextId, req, served, arg, out>>

(***************************************************************************)
(* The clock                                                               *)
(***************************************************************************)
Tick ==
    /\ now < ClockStart + MaxTicks * TickStep
    /\ now' = now + TickStep
    /\ UNCHANGED <<store, nextId, pc, req, loc, resp, served, arg, out>>

(***************************************************************************)
(* The service: workers serving requests over one table and one clock      *)
(***************************************************************************)
NoArg == [fn |-> "none", t |-> 0]
NoOut == [done |-> FALSE, value |-> << >>]

\* the appointments already booked when a run starts: none, one, or two
Yesterday == ClockStart - SecondsPerDay
InitialTables ==
    { << >>,
      1 :> NewRow(SlotA, Ann, EmailA, << >>, << >>, Yesterday),
      (1 :> NewRow(SlotA, Ann, EmailA, << >>, << >>, Yesterday))
        @@ (2 :> NewRow(SlotB, Bob, EmailB, Phone, Flu, Yesterday)) }

InitWith(tables) ==
    /\ now = ClockStart
    /\ store \in tables
    /\ nextId = Cardinality(DOMAIN store) + 1
    /\ pc = [w \in Workers |-> "idle"]
    /\ req = [w \in Workers |-> NoRequest]
    /\ loc = [w \in Workers |-> NoLoc]
    /\ resp = [w \in Workers |-> NoResponse]
    /\ served = 0
    /\ arg = NoArg
    /\ out = NoOut

Init == InitWith(InitialTables)

\* one step of worker w, its requests drawn from the given sets
Step(w, posts, patches, ids, params) ==
    \/ PostValidate(w, posts)
    \/ PostCreate(w)
    \/ PostInsert(w)
    \/ GetDetail(w, ids)
    \/ PatchLoad(w, ids, patches)
    \/ PatchValidate(w)
    \/ PatchCheck(w)
    \/ PatchSave(w)
    \/ DeleteLoad(w, ids)
    \/ DeleteRow(w)
    \/ AvailRange(w, params)
    \/ AvailQuery(w)
    \/ AvailFilter(w)

\* concurrent workers
Next ==
    \/ Tick
    \/ \E w \in Workers :
           Step(w, RacePostBodies, RacePatchBodies, RaceIds, RacePageParams)

Spec == Init /\ [][Next]_vars

\* one worker, serving one request after the other
NextSeq ==
    \/ Tick
    \/ Step("w1", PostBodies, PatchBodies, Ids, PageParams)

SpecSeq == Init /\ [][NextSeq]_vars

(***************************************************************************)
(* The calendar functions on their own: the argument and the clock are     *)
(* drawn from bounded sets and the function is applied                     *)
(***************************************************************************)
SlotInputs ==
    {At(d, h, m, sec) : d \in 0 .. MaxSlotDay, h \in {0, 8, 9, 12, 17, 18, 23},
                        m \in {0, 15, 30, 59}, sec \in {0, 30}}
ClockInputs == {At(-7, 12, 0, 0), At(2, 12, 30, 0), At(2, 17, 0, 0), At(8, 12, 0, 0)}
\* the clocks at which a week is asked for: every day of three weeks, at
\* midnight, before, in and after business hours
WeekClockInputs ==
    {At(d, h, m, 0) : d \in -7 .. MaxSlotDay + 7, h \in {0, 8, 12, 17, 23}, m \in {0, 30}}

InitFunction(fn, inputs) ==
    /\ now \in ClockInputs
    /\ store = << >>
    /\ nextId = 1
    /\ pc = [w \in Workers |-> "idle"]
    /\ req = [w \in Workers |-> NoRequest]
    /\ loc = [w \in Workers |-> NoLoc]
    /\ resp = [w \in Workers |-> NoResponse]
    /\ served = 0
    /\ arg \in {[fn |-> fn, t |-> t] : t \in inputs}
    /\ out = NoOut

ApplyValidateSlot ==
    /\ arg.fn = "validate_slot"
    /\ ~out.done
    /\ out' = [done |-> TRUE, value |-> validate_slot(arg.t, now)]
    /\ UNCHANGED <<now, store, nextId, pc, req, loc, resp, served, arg>>

InitSlot == InitFunction("validate_slot", SlotInputs)
NextSlot == ApplyValidateSlot

SpecSlot == InitSlot /\ [][NextSlot]_vars

ApplyGenerateSlots ==
    /\ arg.fn = "generate_business_slots"
    /\ ~out.done
    /\ out' = [done |-> TRUE, value |-> generate_business_slots(arg.t)]
    /\ UNCHANGED <<now, store, nextId, pc, req, loc, resp, served, arg>>

\* generate_business_slots is given what its callers give it: the start
\* of the week that get_week_range returns for a page at the clock
InitSlots ==
    /\ now \in WeekClockInputs
    /\ store = << >>
    /\ nextId = 1
    /\ pc = [w \in Workers |-> "idle"]
    /\ req = [w \in Workers |-> NoRequest]
    /\ loc = [w \in Workers |-> NoLoc]
    /\ resp = [w \in Workers |-> NoResponse]
    /\ served = 0
    /\ arg \in {[fn |-> "generate_business_slots", t |-> get_week_range(k, now).start] :
                   k \in 0 .. MaxPage}
    /\ out = NoOut
NextSlots == ApplyGenerateSlots

SpecSlots == InitSlots /\ [][NextSlots]_vars

\* two creates, one per worker, on an empty table
NextTwoCreates ==
    \/ Tick
    \/ \E w \in Workers : pc[w] = "idle" /\ PostValidate(w, PostBodies)
    \/ \E w \in Workers : PostCreate(w)
    \/ \E w \in Workers : PostInsert(w)

InitEmpty == InitWith({<< >>})

SpecTwoCreates == InitEmpty /\ [][NextTwoCreates]_vars

\* two requests, one per worker, that contend for the free slot Monday 12:00
\* of a table with two appointments
SlotC == At(0, 12, 0, 0)
ContendingPosts == {Booking(SlotC), Booking(SlotA)}
ContendingPatches == {[start_time |-> isoformat(SlotC)],
                      [start_time |-> isoformat(SlotA), name |-> Pad(Bob)]}
TwoAppointments ==
    (1 :> NewRow(SlotA, Ann, EmailA, << >>, << >>, Yesterday))
        @@ (2 :> NewRow(SlotB, Bob, EmailB, Phone, Flu, Yesterday))

InitContend == InitWith({TwoAppointments})
NextContend ==
    \/ Tick
    \/ \E w \in Workers : pc[w] = "idle" /\ PostValidate(w, ContendingPosts)
    \/ \E w \in Workers : PostCreate(w)
    \/ \E w \in Workers : PostInsert(w)
    \/ \E w \in Workers : pc[w] = "idle" /\ PatchLoad(w, RaceIds, ContendingPatches)
    \/ \E w \in Workers : PatchValidate(w)
    \/ \E w \in Workers : PatchCheck(w)
    \/ \E w \in Workers : PatchSave(w)

SpecContend == InitContend /\ [][NextContend]_vars

\* one client that lists the available slots and then books one of those
\* listed, at several times of the week
ListClocks == {ClockStart, At(2, 12, 15, 0), At(4, 17, 0, 0), At(5, 10, 0, 0)}
BookingOfText(text) ==
    [start_time |-> text, name |-> Pad(Ann), email |-> Pad(EmailA)]
ListedPost(w) ==
    /\ pc[w] = "done"
    /\ req[w].op = "available"
    /\ \E i \in 1 .. Len(resp[w].data.available_slots) :
           PostValidate(w, {BookingOfText(resp[w].data.available_slots[i])})

InitList ==
    /\ now \in ListClocks
    /\ store \in InitialTables
    /\ nextId = Cardinality(DOMAIN store) + 1
    /\ pc = [w \in Workers |-> "idle"]
    /\ req = [w \in Workers |-> NoRequest]
    /\ loc = [w \in Workers |-> NoLoc]
    /\ resp = [w \in Workers |-> NoResponse]
    /\ served = 0
    /\ arg = NoArg
    /\ out = NoOut
NextList ==
    \/ Tick
    \/ AvailRange("w1", PageParams)
    \/ AvailQuery("w1")
    \/ AvailFilter("w1")
    \/ ListedPost("w1")
    \/ PostCreate("w1")
    \/ PostInsert("w1")

SpecList == InitList /\ [][NextList]_vars

\* a run that starts while a PATCH of the name of appointment 1 is in flight:
\* worker w1 has read the appointment (lines 178-234) and has not yet saved;
\* worker w2 then serves creates, updates and deletes
InFlightPatch == Request("patch", 1, [name |-> Pad(Bob)], 0)
OneAppointment == 1 :> NewRow(SlotA, Ann, EmailA, << >>, << >>, Yesterday)

InitInFlight ==
    /\ now = ClockStart
    /\ store = OneAppointment
    /\ nextId = 2
    /\ pc = [w \in Workers |-> IF w = "w1" THEN "patch_save" ELSE "idle"]
    /\ req = [w \in Workers |-> IF w = "w1" THEN InFlightPatch ELSE NoRequest]
    /\ loc = [w \in Workers |->
                IF w = "w1"
                THEN [pk |-> 1,
                      appointment |->
                          PatchFields(OneAppointment[1], InFlightPatch.payload).appointment,
                      parsed_time |-> 0]
                ELSE NoLoc]
    /\ resp = [w \in Workers |-> NoResponse]
    /\ served = 0
    /\ arg = NoArg
    /\ out = NoOut
NextInFlight ==
    \/ Tick
    \/ PostValidate("w2", RacePostBodies)
    \/ PostCreate("w2")
    \/ PostInsert("w2")
    \/ PatchLoad("w2", RaceIds, RacePatchBodies)
    \/ PatchValidate("w2")
    \/ PatchCheck("w2")
    \/ \E w \in Workers : PatchSave(w)
    \/ DeleteLoad("w2", RaceIds)
    \/ DeleteRow("w2")

SpecInFlight == InitInFlight /\ [][NextInFlight]_vars

(***************************************************************************)
(* Properties.  They read instants through the calendar directly: the      *)
(* seconds since the Monday that starts the instant's local week.          *)
(***************************************************************************)
SinceMonday(t) == ((t + UtcOffset) - EpochMonday) % SecondsPerWeek
\* 0 is Monday
DayOfWeek(t) == SinceMonday(t) \div SecondsPerDay
HourOfDay(t) == (SinceMonday(t) % SecondsPerDay) \div SecondsPerHour
MinuteOfHour(t) == (SinceMonday(t) % SecondsPerHour) \div 60
\* the local midnight that starts the instant's day
MidnightOf(t) == t - (SinceMonday(t) % SecondsPerDay)

\* Monday to Friday
OnBusinessDay(t) == DayOfWeek(t) \in 0 .. 4
\* on the half hour, 09:00 to 17:00 inclusive
OnHalfHourInHours(t) ==
    /\ MinuteOfHour(t) \in {0, 30}
    /\ HourOfDay(t) \in 9 .. 17
    /\ HourOfDay(t) = 17 => MinuteOfHour(t) = 0
IsBusinessSlot(t) == OnBusinessDay(t) /\ OnHalfHourInHours(t)

ValidateSlotDone == out.done /\ arg.fn = "validate_slot"
GenerateSlotsDone == out.done /\ arg.fn = "generate_business_slots"

\* C3: validate_slot(t) succeeds for every instant t on Monday to Friday, at
\* local minute 0 or 30, in local hours 9 to 17 with minute 0 in hour 17, that
\* is not earlier than now.
C3_ValidSlotAccepted ==
    (ValidateSlotDone /\ IsBusinessSlot(arg.t) /\ arg.t >= now) => out.value = "ok"

\* the closing slot, 17:00, asked for at the very instant it starts, is accepted
C3_Witness ==
    /\ ValidateSlotDone
    /\ IsBusinessSlot(arg.t)
    /\ arg.t = now
    /\ HourOfDay(arg.t) = 17
    /\ out.value = "ok"

\* C4: for every instant t earlier than now validate_slot(t) fails with
\* PastSlot, whatever its weekday, minute and hour are.
C4_PastSlotRejected ==
    (ValidateSlotDone /\ arg.t < now) => out.value = "PastSlot"

\* a past Saturday off the half hour and before opening is reported as past
C4_Witness ==
    /\ ValidateSlotDone
    /\ arg.t < now
    /\ DayOfWeek(arg.t) = 5
    /\ MinuteOfHour(arg.t) = 15
    /\ HourOfDay(arg.t) = 8
    /\ out.value = "PastSlot"

Ascending(slots) == \A i \in 1 .. Len(slots) - 1 : slots[i] < slots[i + 1]

\* a datetime read directly: the offset of its zone (the server's when it
\* carries none) and the instant it denotes
ZoneOf(dt) == IF dt.tzinfo = << >> THEN UtcOffset ELSE dt.tzinfo[1]
PointOf(dt) == dt.wall - ZoneOf(dt)
PointsOf(dts) == [i \in 1 .. Len(dts) |-> PointOf(dts[i])]

\* C5: for any week_start, generate_slots(week_start) returns exactly 85
\* instants, 17 on each of 5 days from 09:00 to 17:00 inclusive in 30-minute
\* steps, ascending without duplicates, all on Monday to Friday and all on
\* the half hour within business hours.  A week_start is what get_week_range
\* returns for a page, the value every caller of generate_slots passes.
C5_SlotsOfFiveDays ==
    GenerateSlotsDone =>
        /\ Len(out.value) = 85
        /\ \A i \in 1 .. Len(out.value) :
               /\ PointOf(out.value[i]) =
                      MidnightOf(PointOf(arg.t)) + ((i - 1) \div 17) * SecondsPerDay
                          + 9 * SecondsPerHour + ((i - 1) % 17) * 30 * 60
               /\ OnBusinessDay(PointOf(out.value[i]))
               /\ OnHalfHourInHours(PointOf(out.value[i]))
        /\ Ascending(PointsOf(out.value))

\* the slots of the week after the clock's, asked for on a Saturday: they
\* run from Monday 09:00 to Friday 17:00
C5_Witness ==
    /\ GenerateSlotsDone
    /\ DayOfWeek(now) = 5
    /\ PointOf(arg.t) > now
    /\ Len(out.value) = 85
    /\ DayOfWeek(PointOf(out.value[1])) = 0
    /\ HourOfDay(PointOf(out.value[1])) = 9
    /\ DayOfWeek(PointOf(out.value[85])) = 4
    /\ HourOfDay(PointOf(out.value[85])) = 17
    /\ MinuteOfHour(PointOf(out.value[85])) = 0

(***************************************************************************)
(* Properties of the requests                                              *)
(***************************************************************************)
\* the instant an ISO-8601 text denotes
InstantOf(text) == text.wall - (IF text.aware THEN text.off ELSE UtcOffset)

\* the whitespace among the characters of the model
Blanks ==
    {" ", "\t", "\n", "\r", "\f", "U+000B", "U+001C", "U+001F", "U+0085", "U+00A0",
     "U+3000"}
\* the number of characters from the first to the last that is no whitespace
TrimmedLen(text) ==
    Cardinality({i \in 1 .. Len(text) :
                    /\ \E a \in 1 .. i : text[a] \notin Blanks
                    /\ \E b \in i .. Len(text) : text[b] \notin Blanks})
\* the addresses among the model's texts that validate_email takes
ValidEmails ==
    {EmailA, EmailB, EmailApostrophe, EmailQuoted, EmailLiteral, EmailIdn,
     Repeat("a", 250) \o EmailA}
\* the texts of a body are no longer, once trimmed, than the columns they go to
FitsColumns(payload) ==
    /\ "name" \in DOMAIN payload => TrimmedLen(payload["name"]) <= 255
    /\ "email" \in DOMAIN payload => TrimmedLen(payload["email"]) <= 254
    /\ "phone" \in DOMAIN payload => TrimmedLen(payload["phone"]) <= 50

Done(w, op) == pc[w] = "done" /\ req[w].op = op
RowsAt(t) == {i \in DOMAIN store : store[i].start_time = t}

\* the body asks, with a valid name, email and reason and a phone that fits
\* its column, for instant t
IsBookingOf(payload, t) ==
    /\ DOMAIN payload \subseteq allowed_fields
    /\ FitsColumns(payload)
    /\ {"start_time", "name", "email"} \subseteq DOMAIN payload
    /\ payload["start_time"].kind = "iso"
    /\ InstantOf(payload["start_time"]) = t
    /\ payload["name"] = Pad(Ann)
    /\ payload["email"] = Pad(EmailA)
    /\ "reason" \in DOMAIN payload =>
           payload["reason"] = Pad(Repeat("x", REASON_MAX_LENGTH))

\* C1: in every reachable state no two live appointments have the same
\* start_time, whatever creates, updates and deletes ran, in whatever order.
C1_UniqueStartTimes ==
    \A i, j \in DOMAIN store : i # j => store[i].start_time # store[j].start_time

\* a create took a slot and an update of another appointment to that slot
\* was refused
C1_Witness ==
    \E w1, w2 \in Workers :
        /\ Done(w1, "post") /\ resp[w1].status = 201
        /\ Done(w2, "patch") /\ resp[w2].status = 409
        /\ InstantOf(req[w2].payload["start_time"]) = InstantOf(req[w1].payload["start_time"])
        /\ Cardinality(DOMAIN store) >= 2

\* C2: of two creates for the same valid start_time, run one after the other
\* or interleaved, exactly one answers 201 and the other 409 SlotConflict, and
\* exactly one appointment holds that start_time afterwards.
C2_OneCreateWins ==
    \A w1, w2 \in Workers, t \in {SlotA, SlotB} :
        ( /\ w1 # w2
          /\ Done(w1, "post") /\ IsBookingOf(req[w1].payload, t)
          /\ Done(w2, "post") /\ IsBookingOf(req[w2].payload, t)
          /\ IsBusinessSlot(t) /\ t >= now )
        => /\ {resp[w1].status, resp[w2].status} = {201, 409}
           /\ \A w \in {w1, w2} : resp[w].status = 409 => resp[w].error = "SlotConflict"
           /\ Cardinality(RowsAt(t)) = 1

\* two creates for one instant, written at two different offsets, are answered
C2_Witness ==
    \E w1, w2 \in Workers :
        /\ Done(w1, "post") /\ IsBookingOf(req[w1].payload, SlotA)
        /\ Done(w2, "post") /\ IsBookingOf(req[w2].payload, SlotA)
        /\ req[w1].payload["start_time"].off # req[w2].payload["start_time"].off
        /\ resp[w1].status = 201
        /\ resp[w2].status = 409
        /\ SlotA >= now

\* the 85 slots of the work week whose Monday 09:00 is week_start
SlotsOfWeek(week_start) ==
    {MidnightOf(week_start) + d * SecondsPerDay + 9 * SecondsPerHour + k * 30 * 60 :
         d \in 0 .. 4, k \in 0 .. 16}
\* Monday 09:00 of the week that lies k weeks after the clock's week
MondayNine(clock, k) ==
    (clock - SinceMonday(clock)) + k * SecondsPerWeek + 9 * SecondsPerHour
\* the week a page parameter asks for
PageOf(page_param) == IF page_param.int /\ page_param.n >= 0 THEN page_param.n ELSE 0
InstantsOf(texts) == [i \in 1 .. Len(texts) |-> InstantOf(texts[i])]
Elements(seq) == {seq[i] : i \in 1 .. Len(seq)}

\* C6: list_available_slots(week_offset) returns, in ascending order, exactly
\* the slots of that week minus the start times of the live appointments in
\* that week and, only when week_offset is 0, minus the slots earlier than now;
\* count is the number of slots returned.  Step by step: the week is the one
\* week_offset weeks after the clock's, the booked times are those of the
\* table when it is read, and now is the clock when the slots are filtered.
C6_AvailableSlots ==
    [][\A w \in Workers :
        /\ (pc[w] \in {"idle", "done"} /\ pc'[w] = "avail_query") =>
              /\ loc'[w].week_offset = PageOf(req'[w].page)
              /\ PointOf(loc'[w].week_start) = MondayNine(now, PageOf(req'[w].page))
        /\ (pc[w] = "avail_query" /\ pc'[w] = "avail_filter") =>
              \A slot \in SlotsOfWeek(PointOf(loc[w].week_start)) :
                  slot \in loc'[w].booked_slots <=> RowsAt(slot) # {}
        /\ (pc[w] = "avail_filter" /\ pc'[w] = "done") =>
              LET data == resp'[w].data
                  slots == InstantsOf(data.available_slots)
              IN  /\ resp'[w].status = 200
                  /\ data.page = loc[w].week_offset
                  /\ Ascending(slots)
                  /\ Elements(slots) =
                         {slot \in SlotsOfWeek(PointOf(loc[w].week_start)) :
                              /\ slot \notin loc[w].booked_slots
                              /\ loc[w].week_offset = 0 => slot >= now}
                  /\ data.count = Len(slots)
      ]_vars

\* the current week is listed at 09:45 with Monday 09:00 booked: of the 85
\* slots the booked one and the past 09:30 are gone, and 17:00 is listed
C6_Witness ==
    \E w \in Workers :
        /\ Done(w, "available")
        /\ resp[w].data.page = 0
        /\ now = At(0, 9, 45, 0)
        /\ DOMAIN store = {1}
        /\ store[1].start_time = SlotA
        /\ resp[w].data.count = 83
        /\ InstantOf(resp[w].data.available_slots[1]) = At(0, 10, 0, 0)
        /\ InstantOf(resp[w].data.available_slots[15]) = SlotB

\* v is text without the spaces around it
\* v is text without the whitespace at its ends
IsTrimOf(v, text) ==
    /\ v # << >> => v[1] \notin Blanks /\ v[Len(v)] \notin Blanks
    /\ \E i \in 0 .. Len(text) - Len(v) :
           /\ SubSeq(text, i + 1, i + Len(v)) = v
           /\ \A k \in (1 .. i) \cup (i + Len(v) + 1 .. Len(text)) : text[k] \in Blanks
OnlySpaces(text) == \A i \in 1 .. Len(text) : text[i] \in Blanks

\* the PATCH of worker w asks for start_time t and carries no unknown key
PatchAsks(w, t) ==
    /\ Done(w, "patch")
    /\ DOMAIN req[w].payload \subseteq allowed_fields
    /\ "start_time" \in DOMAIN req[w].payload
    /\ req[w].payload["start_time"].kind = "iso"
    /\ InstantOf(req[w].payload["start_time"]) = t
\* the other fields of the body, where present, are valid
OtherFieldsValid(payload) ==
    /\ "name" \in DOMAIN payload => ~OnlySpaces(payload["name"])
    /\ "email" \in DOMAIN payload => \E v \in ValidEmails : IsTrimOf(v, payload["email"])
    /\ "reason" \in DOMAIN payload => TrimmedLen(payload["reason"]) <= 200

\* C7: the conflict check of an update leaves out the appointment that is
\* edited.  With one request served after the other: a PATCH whose start_time
\* is the one its appointment holds, and still valid, answers 200 (its other
\* fields being valid and no longer than their columns); a PATCH
\* whose valid start_time is held by a different live appointment answers 409
\* SlotConflict; and a step that answers 409 leaves the table as it was.
C7_ConflictExcludesSelf ==
    /\ [](\A w \in Workers, t \in {SlotA, SlotB} :
            (PatchAsks(w, t) /\ req[w].id \in DOMAIN store
                /\ IsBusinessSlot(t) /\ t >= now) =>
               /\ (store[req[w].id].start_time = t /\ OtherFieldsValid(req[w].payload)
                      /\ FitsColumns(req[w].payload))
                      => resp[w].status = 200
               /\ RowsAt(t) \ {req[w].id} # {}
                      => resp[w].status = 409 /\ resp[w].error = "SlotConflict")
    /\ [][\A w \in Workers :
            (req[w].op = "patch" /\ pc[w] # "done" /\ pc'[w] = "done"
                /\ resp'[w].status = 409) => store' = store]_vars

\* the first request of a run moves appointment 1, booked at Monday 09:00,
\* to Monday 09:00, and is answered 200
C7_Witness ==
    /\ served = 1
    /\ PatchAsks("w1", SlotA)
    /\ req["w1"].id = 1
    /\ 1 \in DOMAIN store
    /\ store[1].start_time = SlotA
    /\ SlotA >= now
    /\ resp["w1"].status = 200
    /\ InstantOf(resp["w1"].data.start_time) = SlotA

\* worker w takes a step of a PATCH
PatchSteps(w) ==
    /\ req'[w].op = "patch"
    /\ pc'[w] # pc[w] \/ served' # served

\* C8: a multi-field update is all or nothing.  With one request served after
\* the other, no step of a PATCH changes the table except the one that
\* answers 200, and after that one every field the body supplied holds its
\* new, trimmed value, every other appointment being as before; so a PATCH
\* that answers 400 or 409 has changed no field, also none that was validated
\* before the failing one.
C8_AllOrNothing ==
    [][\A w \in Workers :
        PatchSteps(w) =>
            IF pc'[w] = "done" /\ resp'[w].status = 200
            THEN LET payload == req[w].payload
                     row == store'[req[w].id]
                 IN  /\ DOMAIN store' = DOMAIN store
                     /\ \A i \in DOMAIN store \ {req[w].id} : store'[i] = store[i]
                     /\ "start_time" \in DOMAIN payload =>
                            row.start_time = InstantOf(payload["start_time"])
                     /\ "name" \in DOMAIN payload => IsTrimOf(row.name, payload["name"])
                     /\ "email" \in DOMAIN payload => IsTrimOf(row.email, payload["email"])
                     /\ "phone" \in DOMAIN payload => IsTrimOf(row.phone, payload["phone"])
                     /\ "reason" \in DOMAIN payload => IsTrimOf(row.reason, payload["reason"])
            ELSE store' = store
      ]_vars

\* a PATCH of name, phone and reason whose reason is too long is answered 400
\* and appointment 1 keeps its name and phone
C8_Witness ==
    /\ Done("w1", "patch")
    /\ req["w1"].id = 1
    /\ DOMAIN req["w1"].payload = {"name", "phone", "reason"}
    /\ req["w1"].payload["name"] = Pad(Bob)
    /\ resp["w1"].status = 400
    /\ resp["w1"].error = "ReasonTooLong"
    /\ 1 \in DOMAIN store
    /\ store[1].name = Ann
    /\ store[1].phone = << >>

\* C9: every create, get, update and delete request, also when its steps
\* interleave with other requests on the same appointment, ends with one of
\* the responses 200, 201, 204, 400, 404 or 409 and never with an unhandled
\* error.
C9_NoUnhandledError ==
    \A w \in Workers :
        pc[w] = "done" => resp[w].status \in {200, 201, 204, 400, 404, 409}

\* what is wrong with the body of a create, if anything
CreateDefect(payload) ==
    \/ "start_time" \notin DOMAIN payload
    \/ payload["start_time"].kind # "iso"
    \/ "name" \notin DOMAIN payload
    \/ OnlySpaces(payload["name"])
    \/ "email" \notin DOMAIN payload
    \/ ~\E v \in ValidEmails : IsTrimOf(v, payload["email"])
    \/ "reason" \in DOMAIN payload /\ TrimmedLen(payload["reason"]) > 200
    \/ ~IsBusinessSlot(InstantOf(payload["start_time"]))
    \/ InstantOf(payload["start_time"]) < ClockStart

\* C10: a create fails with 400 and leaves the table unchanged when start_time,
\* name or email is missing or empty after trimming, or when the email, the
\* length of the reason, the timestamp or the slot is invalid; it answers 409
\* only when all validation passes and the slot is held, so an invalid request
\* never yields 409 even if its start_time is taken.
C10_CreateValidation ==
    \A w \in Workers :
        Done(w, "post") =>
            /\ CreateDefect(req[w].payload) =>
                   /\ resp[w].status = 400
                   /\ served = 1 => store \in InitialTables
            /\ resp[w].status = 409 =>
                   /\ ~CreateDefect(req[w].payload)
                   /\ RowsAt(InstantOf(req[w].payload["start_time"])) # {}


\* worker w takes a new request of kind op
Accepts(w, op) ==
    /\ pc[w] \in {"idle", "done"}
    /\ served' = served + 1
    /\ req'[w].op = op
    /\ pc'[w] # "idle"

\* C11: a delete of a live appointment removes it and nothing else, and is
\* answered 204; an id once removed is never live again; a get, update or
\* delete of an id that is not live is answered 404 and leaves the table as
\* it was; and a create whose start_time no live appointment holds, such as
\* the start_time of a removed one, is not answered SlotConflict, and is
\* answered 201 when none of its texts is longer than its column.
C11_DeleteRemoves ==
    /\ [][\A w \in Workers :
            (pc[w] = "delete_row" /\ pc'[w] = "done") =>
                /\ resp'[w].status = 204
                /\ DOMAIN store' = DOMAIN store \ {req[w].id}
                /\ \A i \in DOMAIN store' : store'[i] = store[i]
                /\ req[w].id \in DOMAIN store =>
                       \A i \in DOMAIN store' :
                           store'[i].start_time # store[req[w].id].start_time
       ]_vars
    /\ [][\A i \in 1 .. nextId - 1 :
            i \notin DOMAIN store => i \notin DOMAIN store']_vars
    /\ [][\A w \in Workers, op \in {"get", "patch", "delete"} :
            (Accepts(w, op) /\ req'[w].id \notin DOMAIN store) =>
                /\ pc'[w] = "done"
                /\ resp'[w].status = 404
                /\ store' = store
       ]_vars
    /\ [][\A w \in Workers :
            (pc[w] = "post_insert" /\ pc'[w] = "done"
                /\ RowsAt(InstantOf(req[w].payload["start_time"])) = {}) =>
               /\ resp'[w].status # 409
               /\ FitsColumns(req[w].payload) => resp'[w].status = 201
       ]_vars

\* appointment 1, booked at Monday 09:00, was deleted, and the create for
\* Monday 09:00 that followed was answered 201 with the new appointment 2
C11_Witness ==
    /\ served = 2
    /\ Done("w1", "post")
    /\ resp["w1"].status = 201
    /\ now <= SlotA
    /\ DOMAIN store = {2}
    /\ store[2].start_time = SlotA


\* the keys of the model's bodies that no field has, as Python sorts them
KeysInOrder == <<"Foo", "bar", "created_at", "foo", "id", "zip">>
PlaceOf(key) == CHOOSE i \in 1 .. Len(KeysInOrder) : KeysInOrder[i] = key

\* C12: a PATCH of a live appointment whose body has a key outside start_time,
\* name, email, phone and reason is answered 400 UnsupportedField at once,
\* lists exactly the offending keys in alphabetical order, and leaves the
\* table as it was, whatever the recognised fields of the body are.
C12_UnknownKeysRejected ==
    [][\A w \in Workers :
        (Accepts(w, "patch") /\ req'[w].id \in DOMAIN store
            /\ ~(DOMAIN req'[w].payload \subseteq
                    {"start_time", "name", "email", "phone", "reason"})) =>
           LET named == resp'[w].data
               offending == DOMAIN req'[w].payload
                                \ {"start_time", "name", "email", "phone", "reason"}
           IN  /\ pc'[w] = "done"
               /\ resp'[w].status = 400
               /\ resp'[w].error = "UnsupportedField"
               /\ {named[i] : i \in 1 .. Len(named)} = offending
               /\ \A i \in 1 .. Len(named) - 1 :
                      PlaceOf(named[i]) < PlaceOf(named[i + 1])
               /\ store' = store
      ]_vars

\* a PATCH of appointment 1 with the keys foo and bar and a valid name is
\* answered 400 naming bar, then foo, and the name is as before
C12_Witness ==
    /\ Done("w1", "patch")
    /\ req["w1"].id = 1
    /\ DOMAIN req["w1"].payload = {"foo", "bar", "name"}
    /\ req["w1"].payload["name"] = Pad(Bob)
    /\ resp["w1"].status = 400
    /\ resp["w1"].data = <<"bar", "foo">>
    /\ 1 \in DOMAIN store
    /\ store[1].name = Ann


\* C13: every live appointment's start_time is on Monday to Friday, at local
\* minute 0 or 30 and in local hours 09:00 to 17:00 inclusive (the seconds are
\* looked at by nobody); a start_time passes validation, in a create or in a
\* reschedule, only when it is not earlier than the clock read then; and, with
\* one request served after the other, a start_time comes into the table only
\* as the instant such a validated request asked for.
C13_StoredSlotsValid ==
    /\ [](\A i \in DOMAIN store : IsBusinessSlot(store[i].start_time))
    /\ [][\A w \in Workers :
            /\ (Accepts(w, "post") /\ pc'[w] = "post_create") =>
                   /\ loc'[w].start_time = InstantOf(req'[w].payload["start_time"])
                   /\ loc'[w].start_time >= now
            /\ (pc[w] = "patch_validate" /\ pc'[w] = "patch_check") =>
                   /\ loc'[w].parsed_time = InstantOf(req[w].payload["start_time"])
                   /\ loc'[w].parsed_time >= now
       ]_vars
    /\ [][\A i \in DOMAIN store' :
            (i \notin DOMAIN store \/ store'[i].start_time # store[i].start_time) =>
                \E w \in Workers :
                    /\ pc'[w] = "done"
                    /\ \/ pc[w] = "post_insert"
                       \/ pc[w] = "patch_save" /\ req[w].id = i
                    /\ "start_time" \in DOMAIN req[w].payload
                    /\ store'[i].start_time = InstantOf(req[w].payload["start_time"])
       ]_vars

\* a create for Monday 09:00 passed validation at 08:45 and was inserted at
\* 09:45: the appointment's start_time is earlier than the time it was made
C13_Witness ==
    /\ Done("w1", "post")
    /\ resp["w1"].status = 201
    /\ now = At(0, 9, 45, 0)
    /\ \E i \in DOMAIN store :
           /\ store[i].start_time = SlotA
           /\ store[i].created_at = At(0, 9, 45, 0)


\* C14: every live appointment has a name and an email with a character that
\* is no space, and a reason of at most 200 characters.
C14_StoredFieldsValid ==
    \A i \in DOMAIN store :
        /\ ~OnlySpaces(store[i].name)
        /\ ~OnlySpaces(store[i].email)
        /\ Len(store[i].reason) <= 200

\* a create with a reason of 200 characters between two spaces was accepted,
\* and later the appointment was given another name
C14_Witness ==
    /\ Done("w1", "patch")
    /\ resp["w1"].status = 200
    /\ \E i \in DOMAIN store :
           /\ i = req["w1"].id
           /\ Len(store[i].reason) = 200
           /\ store[i].name = Bob
           /\ store[i].start_time = SlotB


\* the first error that applies to instant t at time clock, in the order
\* PastSlot, NonBusinessDay, Misaligned, OutsideHours
FirstSlotError(t, clock) ==
    IF t < clock THEN "PastSlot"
    ELSE IF DayOfWeek(t) > 4 THEN "NonBusinessDay"
    ELSE IF MinuteOfHour(t) # 0 /\ MinuteOfHour(t) # 30 THEN "Misaligned"
    ELSE IF HourOfDay(t) < 9 \/ HourOfDay(t) > 17
            \/ (HourOfDay(t) = 17 /\ MinuteOfHour(t) > 0) THEN "OutsideHours"
    ELSE "ok"

\* C15: validate_slot reports one error per call, the first that applies in
\* the order PastSlot, NonBusinessDay, Misaligned, OutsideHours, and none when
\* none applies.
C15_FirstErrorWins ==
    ValidateSlotDone =>
        /\ out.value \in {"PastSlot", "NonBusinessDay", "Misaligned", "OutsideHours", "ok"}
        /\ out.value = FirstSlotError(arg.t, now)

\* a future Monday 08:15 is reported as misaligned, not as outside the hours
C15_Witness ==
    /\ ValidateSlotDone
    /\ arg.t >= now
    /\ DayOfWeek(arg.t) = 0
    /\ HourOfDay(arg.t) = 8
    /\ MinuteOfHour(arg.t) = 15
    /\ out.value = "Misaligned"


\* the failures the start_time of a PATCH body may end in, the clock having
\* been read between ClockStart and now: those of the text, of the slot, and
\* the conflict with another appointment
StartTimeFailures(payload, id) ==
    IF "start_time" \notin DOMAIN payload THEN {}
    ELSE IF payload["start_time"].kind = "malformed" THEN {"MalformedTimestamp"}
    ELSE IF payload["start_time"].kind # "iso" THEN {"ValueError"}
    ELSE LET t == InstantOf(payload["start_time"]) IN
         ({FirstSlotError(t, ClockStart), FirstSlotError(t, now)} \ {"ok"})
         \cup (IF RowsAt(t) \ {id} # {} THEN {"SlotConflict"} ELSE {})
\* the start_time of the body fails whenever the clock was read
StartTimeMustFail(payload, id) ==
    /\ "start_time" \in DOMAIN payload
    /\ \/ payload["start_time"].kind # "iso"
       \/ FirstSlotError(InstantOf(payload["start_time"]), ClockStart) # "ok"
       \/ /\ FirstSlotError(InstantOf(payload["start_time"]), now) = "ok"
          /\ RowsAt(InstantOf(payload["start_time"])) \ {id} # {}
\* the first failure among name, email and reason (phone has none), or "ok"
FirstFieldFailure(payload) ==
    IF "name" \in DOMAIN payload /\ OnlySpaces(payload["name"])
        THEN "BlankField(name)"
    ELSE IF "email" \in DOMAIN payload /\ OnlySpaces(payload["email"])
        THEN "BlankField(email)"
    ELSE IF "email" \in DOMAIN payload
            /\ ~\E v \in ValidEmails : IsTrimOf(v, payload["email"])
        THEN "InvalidEmail"
    ELSE IF "reason" \in DOMAIN payload /\ TrimmedLen(payload["reason"]) > 200
        THEN "ReasonTooLong"
    ELSE "ok"

\* C16: with one request served after the other, a PATCH of a live
\* appointment, its keys all recognised, that has an invalid field is not
\* answered 200 and reports one failure, the first in the order start_time,
\* name, email, phone, reason: a failure of start_time, the conflict with
\* another appointment included, whenever start_time fails, and otherwise the
\* first failure of the other fields; and no step of a PATCH that is not
\* answered 200 changes the table.
C16_FirstFailureReported ==
    /\ [](\A w \in Workers :
            (Done(w, "patch") /\ resp[w].status # 404
                /\ DOMAIN req[w].payload \subseteq allowed_fields) =>
               LET payload == req[w].payload
                   id == req[w].id
               IN  /\ StartTimeMustFail(payload, id) =>
                          resp[w].error \in StartTimeFailures(payload, id)
                   /\ (resp[w].error \notin StartTimeFailures(payload, id)
                          /\ FirstFieldFailure(payload) # "ok") =>
                          resp[w].error = FirstFieldFailure(payload)
                   /\ resp[w].error = "SlotConflict" <=> resp[w].status = 409
                   /\ resp[w].error = "none" <=> resp[w].status = 200)
    /\ [][\A w \in Workers :
            (PatchSteps(w) /\ ~(pc'[w] = "done" /\ resp'[w].status = 200))
                => store' = store]_vars

\* a PATCH of appointment 1 to the slot of appointment 2, with a blank name,
\* is answered 409, and appointment 1 is as it was
C16_Witness ==
    /\ Done("w1", "patch")
    /\ req["w1"].id = 1
    /\ DOMAIN req["w1"].payload = {"start_time", "name"}
    /\ InstantOf(req["w1"].payload["start_time"]) = SlotB
    /\ OnlySpaces(req["w1"].payload["name"])
    /\ resp["w1"].status = 409
    /\ DOMAIN store = {1, 2}
    /\ store[2].start_time = SlotB
    /\ store[1].start_time = SlotA
    /\ store[1].name = Ann


\* the request of worker w asks for the slot t: a create, or the reschedule
\* of a live appointment
WantsSlot(w, t) ==
    /\ req[w].op \in {"post", "patch"}
    /\ "start_time" \in DOMAIN req[w].payload
    /\ InstantOf(req[w].payload["start_time"]) = t
Won(w) == pc[w] = "done" /\ resp[w].status \in {200, 201}
Lost(w) == pc[w] = "done" /\ resp[w].status = 409 /\ resp[w].error = "SlotConflict"

\* C17: of two requests that contend for the same free slot, two reschedules
\* of different appointments or a reschedule and a create, however their
\* steps interleave, one succeeds and the other is answered 409 SlotConflict,
\* one appointment holds the slot afterwards, and a reschedule that lost left
\* its appointment at its start_time; in particular a save or an insert that
\* comes after the pre-check was passed and the slot was taken meanwhile is
\* answered 409 and writes nothing.
C17_LostRaceIsConflict ==
    /\ [](\A w \in Workers, v \in Workers :
            (w # v /\ WantsSlot(w, SlotC) /\ WantsSlot(v, SlotC)
                /\ pc[w] = "done" /\ pc[v] = "done"
                /\ "patch" \in {req[w].op, req[v].op}
                /\ (req[w].op = req[v].op => req[w].id # req[v].id)) =>
               /\ (Won(w) /\ Lost(v)) \/ (Won(v) /\ Lost(w))
               /\ Cardinality(RowsAt(SlotC)) = 1
               /\ (Lost(w) /\ req[w].op = "patch") =>
                      store[req[w].id].start_time = TwoAppointments[req[w].id].start_time)
    /\ [][\A w \in Workers :
            /\ (pc[w] = "patch_save" /\ pc'[w] = "done"
                  /\ RowsAt(loc[w].appointment.start_time) \ {loc[w].pk} # {}) =>
                   Lost(w)' /\ store' = store
            /\ (pc[w] = "post_insert" /\ pc'[w] = "done"
                  /\ RowsAt(loc[w].start_time) # {}) =>
                   Lost(w)' /\ store' = store
       ]_vars

\* the reschedule of appointment 1 to Monday 12:00 has passed the pre-check
\* and is about to save, and the reschedule of appointment 2 to Monday 12:00
\* has been saved meanwhile
C17_Witness ==
    /\ pc["w1"] = "patch_save"
    /\ loc["w1"].pk = 1
    /\ loc["w1"].appointment.start_time = SlotC
    /\ Won("w2")
    /\ req["w2"].op = "patch"
    /\ store[2].start_time = SlotC
    /\ store[1].start_time = SlotA


\* C18: slot validity is checked only when a start_time is written.  With
\* one request served after the other, a PATCH of a live appointment without
\* start_time and with valid fields, none longer than its column, is
\* answered 200 whatever the appointment's start_time is, past ones
\* included, and no step of it changes
\* a start_time; a PATCH whose start_time is earlier than the clock when it
\* is validated, the appointment's own included, is answered 400 PastSlot and
\* writes nothing.
C18_ValidatedOnlyWhenWritten ==
    /\ [](\A w \in Workers :
            (Done(w, "patch") /\ req[w].id \in DOMAIN store
                /\ DOMAIN req[w].payload \subseteq {"name", "email", "phone", "reason"}
                /\ FirstFieldFailure(req[w].payload) = "ok"
                /\ FitsColumns(req[w].payload)) =>
               resp[w].status = 200)
    /\ [][\A w \in Workers :
            /\ (PatchSteps(w) /\ "start_time" \notin DOMAIN req'[w].payload) =>
                   /\ DOMAIN store' = DOMAIN store
                   /\ \A i \in DOMAIN store : store'[i].start_time = store[i].start_time
            /\ (pc[w] = "patch_validate" /\ pc'[w] # "patch_validate"
                  /\ req[w].payload["start_time"].kind = "iso"
                  /\ InstantOf(req[w].payload["start_time"]) < now) =>
                   /\ pc'[w] = "done"
                   /\ resp'[w].status = 400
                   /\ resp'[w].error = "PastSlot"
                   /\ store' = store
       ]_vars

\* at 09:45 appointment 1, booked at 09:00, was given another name with 200
C18_Witness ==
    /\ Done("w1", "patch")
    /\ req["w1"].id = 1
    /\ DOMAIN req["w1"].payload = {"name"}
    /\ resp["w1"].status = 200
    /\ served = 1
    /\ 1 \in DOMAIN store
    /\ store[1].start_time = SlotA
    /\ store[1].start_time < now
    /\ store[1].created_at = Yesterday
    /\ store[1].name = Bob


\* the slots a response lists, as instants
Listed(response) == InstantsOf(response.data.available_slots)
\* 17:00 of the days Monday to Friday of the week that starts at week_start
ClosingSlots(week_start) ==
    {MidnightOf(week_start) + d * SecondsPerDay + 17 * SecondsPerHour : d \in 0 .. 4}

\* C19: the slot generator and the slot validator agree.  Every slot a
\* listing returns, for page 0 and for later pages, passes validate_slot at
\* the clock the listing read, and every 17:00 of the week that is neither
\* past nor booked is among them; with no write in between, no listed slot is
\* the start_time of a live appointment, a create with valid fields for a
\* listed slot that has not passed goes on to the insert, and the insert of a
\* slot no live appointment holds is answered 201 and stores it.
C19_ListedSlotsBookable ==
    /\ [](\A w \in Workers :
            Done(w, "available") =>
                \A i \in 1 .. Len(Listed(resp[w])) : RowsAt(Listed(resp[w])[i]) = {})
    /\ [][\A w \in Workers :
            (pc[w] = "avail_filter" /\ pc'[w] = "done") =>
                /\ \A i \in 1 .. Len(Listed(resp'[w])) :
                       /\ validate_slot(Listed(resp'[w])[i], now) = "ok"
                       /\ IsBusinessSlot(Listed(resp'[w])[i])
                       /\ Listed(resp'[w])[i] >= now
                /\ \A closing \in ClosingSlots(PointOf(loc[w].week_start)) :
                       (closing >= now /\ closing \notin loc[w].booked_slots) =>
                           closing \in Elements(Listed(resp'[w]))
       ]_vars
    /\ [][\A w \in Workers :
            (Done(w, "available") /\ Accepts(w, "post")
                /\ req'[w].payload["start_time"] \in
                       Elements(resp[w].data.available_slots)
                /\ IsBookingOf(req'[w].payload, InstantOf(req'[w].payload["start_time"]))
                /\ InstantOf(req'[w].payload["start_time"]) >= now) =>
               /\ pc'[w] = "post_create"
               /\ RowsAt(InstantOf(req'[w].payload["start_time"])) = {}
       ]_vars
    /\ [][\A w \in Workers :
            (pc[w] = "post_insert" /\ pc'[w] = "done"
                /\ RowsAt(InstantOf(req[w].payload["start_time"])) = {}) =>
               /\ resp'[w].status = 201
               /\ RowsAt(InstantOf(req[w].payload["start_time"]))' # {}
       ]_vars

\* on Friday at 17:00 the listing of page 0 returned the closing slot alone,
\* and the create for it was answered 201
C19_Witness ==
    /\ served = 2
    /\ Done("w1", "post")
    /\ resp["w1"].status = 201
    /\ now = At(4, 17, 0, 0)
    /\ RowsAt(At(4, 17, 0, 0)) # {}


\* C20: a PATCH changes only the fields its body names: the save of a PATCH
\* leaves every other appointment as it is and every field of its own
\* appointment that the body does not name at the value the table holds when
\* it saves, also when another PATCH of the same appointment was saved after
\* this one had read the appointment.
C20_OnlySuppliedFieldsChange ==
    [][\A w \in Workers :
        (pc[w] = "patch_save" /\ pc'[w] = "done" /\ resp'[w].status = 200) =>
            /\ DOMAIN store' = DOMAIN store
            /\ \A i \in DOMAIN store \ {req[w].id} : store'[i] = store[i]
            /\ \A field \in {"start_time", "name", "email", "phone", "reason"}
                                \ DOMAIN req[w].payload :
                   store'[req[w].id][field] = store[req[w].id][field]
            /\ store'[req[w].id].created_at = store[req[w].id].created_at
      ]_vars


\* C21: a PATCH whose body has no start_time is never answered 409
\* SlotConflict, however its steps interleave with those of other create,
\* update and delete requests.
C21_NoConflictWithoutStartTime ==
    \A w \in Workers :
        (Done(w, "patch") /\ "start_time" \notin DOMAIN req[w].payload) =>
            /\ resp[w].status # 409
            /\ resp[w].error # "SlotConflict"

=============================================================================
